---- MODULE Spec2Model ----
(***************************************************************************)
(* Model of the extraction pipeline of web-content-extractor:              *)
(*   - AsyncHttpClient.extract_content   (src/infrastructure/http_client)  *)
(*   - ExtractionService.extract_and_classify / crawl_and_extract          *)
(*     (src/core/service.py)                                               *)
(* Exceptions are records; a call either returns a value or raises one.    *)
(***************************************************************************)
EXTENDS Integers, Sequences, FiniteSets, TLC

\* ------------------------------------------------------------------------
\* Bounds of the model
\* ------------------------------------------------------------------------
\* largest max_retries value explored (the settings accept 0..10)
MaxRetriesBound == 3
\* number of URLs of the modelled web
NumUrls == 4
\* largest max_pages passed to crawl_and_extract
MaxPagesBound == 3
\* largest number of classified links of one page
MaxLinks == 2
\* largest number of navigation links found on one page
MaxNav == 2

\* ------------------------------------------------------------------------
\* Values
\* ------------------------------------------------------------------------
\* Python's None for an optional integer argument
NoneInt == -1

Urls == 1 .. NumUrls

\* values of context.get_elapsed_time(): no time measured, some time measured
ElapsedTimes == {0, 1}

\* response bodies
Bodies == {"html_a", "html_b"}

\* HTTP status codes a backend answers with
StatusCodes == {200, 404, 499, 500, 503, 599}

\* Python's None for an optional object
None == [none |-> TRUE]

\* no exception
NoCause == [type |-> "None"]
NoContext == [url |-> 0, correlation_id |-> 0]

\* ExtractionContext(url=..., correlation_id=...)
ExtractionContext(url, cid) == [url |-> url, correlation_id |-> cid]

\* an exception object: its class, its context attribute, its cause attribute
Exc(type, context, cause) == [type |-> type, context |-> context, cause |-> cause]

\* the classes deriving from ContextualExtractionError
ContextualTypes ==
    {"ContextualExtractionError", "ContentExtractionError",
     "LinkParsingError", "LinkClassificationError"}

\* isinstance(e, ContextualExtractionError)
IsContextual(e) == e.type \in ContextualTypes

\* ContextualExtractionError.__init__ and its subclasses
ContextualError(type, context, cause) == Exc(type, context, cause)

\* ResultStorageError(ExtractionError): no context, no cause attribute
ResultStorageError == Exc("ResultStorageError", NoContext, NoCause)

\* 2**attempt
RECURSIVE Pow2(_)
Pow2(n) == IF n <= 0 THEN 1 ELSE 2 * Pow2(n - 1)

VARIABLES
    \* --- AsyncHttpClient ---
    max_retries,    \* self.max_retries
    fpc,            \* position of extract_content: ready, loop, returned, raised
    attempt,        \* loop variable of the retry loop
    f_events,       \* requests issued and sleeps done, in order
    f_responses,    \* what the backend answered, in order
    f_out,          \* value returned or exception raised by extract_content
    \* --- ExtractionService, one extract_and_classify call ---
    result_storage, \* self._result_storage: TRUE when a collaborator is configured
    stored,         \* results handed to the storage collaborator's save_result
    s_pc,           \* ready, done
    s_in,           \* arguments of the call and behaviour of the collaborators
    s_out,          \* what the call returned or raised
    \* --- ExtractionService.crawl_and_extract, one call ---
    c_pc,           \* ready, loop, returned, raised
    start_url,      \* argument start_url
    max_pages,      \* argument max_pages
    visited_urls,   \* local visited_urls
    urls_to_visit,  \* local urls_to_visit
    final_result,   \* local final_result
    c_log,          \* one entry per loop iteration that extracted a page
    c_last,         \* what the latest loop iteration did
    c_out,          \* what crawl_and_extract returned or raised
    \* --- LinkClassifier.classify_links, one call ---
    k_pc,           \* idle, loop, returned, raised
    k_impl,         \* the classifier: regex (RegexLinkClassifier) or context
    k_self,         \* the attributes of the classifier object
    k_links,        \* argument links, a sequence of (url, text) candidates
    k_i,            \* position of the for loop in links
    k_classified,   \* local classified_links
    k_out,          \* what classify_links returned or raised
    \* --- concurrent crawl_and_extract calls on one service ---
    inv,            \* per invocation: its arguments, locals and outcome
    web,            \* what the pages fetched so far serve
    \* --- one save_result call on a storage collaborator ---
    st_pc,          \* idle, try (in the try block), returned or raised
    st_impl,        \* local (LocalFileStorage) or azure (AzureBlobStorage)
    st_result,      \* argument result: its host, what its serialisation does
    st_filename,    \* argument filename of the running save_result
    st_retries,     \* local retries; for azure the depth of the recursion
    st_clock,       \* how many times datetime.now() was read
    st_opens,       \* the calls of open or upload_blob: name and outcome
    st_out,         \* what save_result returned or raised
    \* --- one find_navigation_links call, and the frontier after it ---
    n_pc,           \* idle, loop or returned
    n_base,         \* argument base_url
    n_content,      \* the href values of the anchors of content, in order
    n_log,          \* per anchor seen: href, full_url, whether it was added
    n_links,        \* local navigation_links
    n_out,          \* the list returned, and the frontier of the crawl
    \* --- uuid source of CorrelationId.generate ---
    cidCounter

fetchVars == <<max_retries, fpc, attempt, f_events, f_responses, f_out>>
serviceVars == <<result_storage, stored, s_pc, s_in, s_out>>
crawlVars == <<c_pc, start_url, max_pages, visited_urls, urls_to_visit,
               final_result, c_log, c_last, c_out>>
concVars == <<inv, web>>
classifyVars == <<k_pc, k_impl, k_self, k_links, k_i, k_classified, k_out>>
navVars == <<n_pc, n_base, n_content, n_log, n_links, n_out>>
storageVars == <<st_pc, st_impl, st_result, st_filename, st_retries, st_clock,
                 st_opens, st_out>>
vars == <<max_retries, fpc, attempt, f_events, f_responses, f_out,
          result_storage, stored, s_pc, s_in, s_out,
          c_pc, start_url, max_pages, visited_urls, urls_to_visit,
          final_result, c_log, c_last, c_out,
          k_pc, k_impl, k_self, k_links, k_i, k_classified, k_out,
          inv, web,
          st_pc, st_impl, st_result, st_filename, st_retries, st_clock,
          st_opens, st_out,
          n_pc, n_base, n_content, n_log, n_links, n_out, cidCounter>>

\* ------------------------------------------------------------------------
\* AsyncHttpClient (src/infrastructure/http_client.py)
\* ------------------------------------------------------------------------
\* self.max_retries = max_retries or settings.max_retries
InitMaxRetries(arg, settings_max_retries) ==
    IF arg = NoneInt \/ arg = 0 THEN settings_max_retries ELSE arg

\* range(1, self.max_retries + 1)
AttemptRange(n) == 1 .. n

\* response.raise_for_status() raises HTTPStatusError
RaisesForStatus(code) == code >= 400

\* variant: the retry test also passes on the last attempt
RetryStatus_LastToo(code, a, n) == 500 <= code /\ code < 600 /\ a <= n

\* variant: every status error is retried
RetryStatus_AnyCode(code, a, n) == a < n

\* 500 <= e.response.status_code < 600 and attempt < self.max_retries
RetryStatus(code, a, n) == 500 <= code /\ code < 600 /\ a < n

\* variant: the timeout branch gives up one attempt early
RetryTimeout_Early(a, n) == a < n - 1

\* attempt < self.max_retries  (timeout branch)
RetryTimeout(a, n) == a < n

\* asyncio.sleep(2**attempt)
Backoff(a) == Pow2(a)

GetEvent(a) == [op |-> "get", attempt |-> a, secs |-> 0]
SleepEvent(a) == [op |-> "sleep", attempt |-> a, secs |-> Backoff(a)]

\* for attempt in range(...): advance to the next value
NextAttempt == attempt' = attempt + 1

FetchIdle ==
    /\ max_retries = 0
    /\ fpc = "idle"
    /\ attempt = 0
    /\ f_events = <<>>
    /\ f_responses = <<>>
    /\ f_out = [kind |-> "none"]

\* AsyncHttpClient.__init__ with each accepted argument and setting
FetchInit ==
    /\ \E arg \in {NoneInt} \cup (0 .. MaxRetriesBound),
          s \in 0 .. MaxRetriesBound :
            max_retries = InitMaxRetries(arg, s)
    /\ fpc = "ready"
    /\ attempt = 0
    /\ f_events = <<>>
    /\ f_responses = <<>>
    /\ f_out = [kind |-> "none"]

\* extract_content entry: context created, client opened, loop entered
ExtractContentBegin ==
    /\ fpc = "ready"
    /\ fpc' = "loop"
    /\ attempt' = 1
    /\ cidCounter' = cidCounter + 1
    /\ f_out' = [kind |-> "none",
                 context |-> ExtractionContext(1, cidCounter + 1)]
    /\ UNCHANGED <<max_retries, f_events, f_responses>>
    /\ UNCHANGED serviceVars
    /\ UNCHANGED crawlVars
    /\ UNCHANGED concVars
    /\ UNCHANGED storageVars
    /\ UNCHANGED navVars
    /\ UNCHANGED classifyVars

InLoop == fpc = "loop" /\ attempt \in AttemptRange(max_retries)

FetchRaise(cause) ==
    /\ fpc' = "raised"
    /\ f_out' = [kind |-> "raise",
                 error |-> ContextualError("ContentExtractionError",
                                           f_out.context, cause)]
    /\ UNCHANGED attempt

\* client.get succeeds and raise_for_status passes: return str(response.text)
AttemptSuccess ==
    /\ InLoop
    /\ \E code \in StatusCodes, body \in Bodies :
        /\ ~RaisesForStatus(code)
        /\ f_responses' = Append(f_responses, [kind |-> "status", code |-> code, body |-> body])
        /\ f_events' = Append(f_events, GetEvent(attempt))
        /\ fpc' = "returned"
        /\ f_out' = [kind |-> "return", value |-> body]
    /\ UNCHANGED <<max_retries, attempt, cidCounter>>
    /\ UNCHANGED serviceVars
    /\ UNCHANGED crawlVars
    /\ UNCHANGED concVars
    /\ UNCHANGED storageVars
    /\ UNCHANGED navVars
    /\ UNCHANGED classifyVars

\* except httpx.TimeoutException
AttemptTimeout ==
    /\ InLoop
    /\ f_responses' = Append(f_responses, [kind |-> "timeout", code |-> 0, body |-> ""])
    /\ IF RetryTimeout(attempt, max_retries)
       THEN /\ f_events' = f_events \o <<GetEvent(attempt), SleepEvent(attempt)>>
            /\ NextAttempt
            /\ UNCHANGED <<fpc, f_out>>
       ELSE /\ f_events' = Append(f_events, GetEvent(attempt))
            /\ FetchRaise(Exc("TimeoutException", NoContext, NoCause))
    /\ UNCHANGED <<max_retries, cidCounter>>
    /\ UNCHANGED serviceVars
    /\ UNCHANGED crawlVars
    /\ UNCHANGED concVars
    /\ UNCHANGED storageVars
    /\ UNCHANGED navVars
    /\ UNCHANGED classifyVars

\* except httpx.HTTPStatusError
AttemptStatusError ==
    /\ InLoop
    /\ \E code \in StatusCodes :
        /\ RaisesForStatus(code)
        /\ f_responses' = Append(f_responses, [kind |-> "status", code |-> code, body |-> ""])
        /\ IF RetryStatus(code, attempt, max_retries)
           THEN /\ f_events' = f_events \o <<GetEvent(attempt), SleepEvent(attempt)>>
                /\ NextAttempt
                /\ UNCHANGED <<fpc, f_out>>
           ELSE /\ f_events' = Append(f_events, GetEvent(attempt))
                /\ FetchRaise(Exc("HTTPStatusError", NoContext, NoCause))
    /\ UNCHANGED <<max_retries, cidCounter>>
    /\ UNCHANGED serviceVars
    /\ UNCHANGED crawlVars
    /\ UNCHANGED concVars
    /\ UNCHANGED storageVars
    /\ UNCHANGED navVars
    /\ UNCHANGED classifyVars

\* except httpx.HTTPError (any other transport error)
AttemptHTTPError ==
    /\ InLoop
    /\ f_responses' = Append(f_responses, [kind |-> "transport", code |-> 0, body |-> ""])
    /\ f_events' = Append(f_events, GetEvent(attempt))
    /\ FetchRaise(Exc("HTTPError", NoContext, NoCause))
    /\ UNCHANGED <<max_retries, cidCounter>>
    /\ UNCHANGED serviceVars
    /\ UNCHANGED crawlVars
    /\ UNCHANGED concVars
    /\ UNCHANGED storageVars
    /\ UNCHANGED navVars
    /\ UNCHANGED classifyVars

\* the loop ends without return or raise: the raise after the loop
LoopExhausted ==
    /\ fpc = "loop"
    /\ attempt \notin AttemptRange(max_retries)
    /\ FetchRaise(NoCause)
    /\ UNCHANGED <<max_retries, f_events, f_responses, cidCounter>>
    /\ UNCHANGED serviceVars
    /\ UNCHANGED crawlVars
    /\ UNCHANGED concVars
    /\ UNCHANGED storageVars
    /\ UNCHANGED navVars
    /\ UNCHANGED classifyVars

NextFetch ==
    \/ ExtractContentBegin
    \/ AttemptSuccess
    \/ AttemptTimeout
    \/ AttemptStatusError
    \/ AttemptHTTPError
    \/ LoopExhausted


\* ------------------------------------------------------------------------
\* Domain objects (src/core/models.py, src/core/value_objects.py)
\* ------------------------------------------------------------------------
LinkTypes == {"pdf", "youtube", "other"}

\* an ExtractedLink produced by the classifier for the n-th candidate of a page
ExtractedLink(page, n, type) == [page |-> page, n |-> n, link_type |-> type]

\* variant: every bucket takes every link
LinksOfType_All(links, t) == links

\* [link for link in links if link.link_type == t]
LinksOfType(links, t) == SelectSeq(links, LAMBDA l : l.link_type = t)

\* ProcessingTime.__post_init__: raises ValueError unless seconds > 0
ProcessingTimeValid(seconds) == seconds > 0

ValueError == Exc("ValueError", NoContext, NoCause)

\* ExtractionMetadata(...)
ExtractionMetadata(total, pdf, youtube, seconds, cid) ==
    [total_links_found |-> total, pdf_count |-> pdf, youtube_count |-> youtube,
     processing_time |-> seconds, correlation_id |-> cid]

\* ExtractionResult(...)
ExtractionResult(url, pdf, youtube, other, metadata) ==
    [source_url |-> url, pdf_links |-> pdf, youtube_links |-> youtube,
     other_links |-> other, metadata |-> metadata]

\* variant: the total leaves out the other links
total_links_NoOther(r) == Len(r.pdf_links) + Len(r.youtube_links)

\* ExtractionResult.total_links
total_links(r) == Len(r.pdf_links) + Len(r.youtube_links) + Len(r.other_links)

\* ------------------------------------------------------------------------
\* ExtractionService.extract_and_classify (src/core/service.py)
\* ------------------------------------------------------------------------
Return(v) == [kind |-> "return", value |-> v]
Raise(e) == [kind |-> "raise", error |-> e]

\* variant: the handler wraps every error, contextual or not
HandleFailure_AlwaysWrap(e, context) ==
    Raise(ContextualError("ContextualExtractionError", context, e))

\* variant: the handler lets a non-contextual error through as it is
HandleFailure_NoWrap(e, context) == Raise(e)

\* except Exception as e: re-raise a contextual error, wrap any other
HandleFailure(e, context) ==
    IF IsContextual(e)
    THEN Raise(e)
    ELSE Raise(ContextualError("ContextualExtractionError", context, e))

\* variant: the result is saved whenever a storage collaborator is configured
ShouldSave_IgnoreFlag(save_result, storage) == storage

\* if save_result and self._result_storage
ShouldSave(save_result, storage) == save_result /\ storage

\* variant: the save is made also when the assembly failed
AssembleAndSave_SaveOnFailure(url, save_result, storage, cid, env, classified) ==
    [raised |-> IF ProcessingTimeValid(env.elapsed) THEN NoCause ELSE ValueError,
     value |-> None,
     saves |-> IF ShouldSave(save_result, storage) THEN <<None>> ELSE <<>>]

\* Steps 4 and 5 of the try block: assemble the result, optionally save it.
\* Yields the exception raised (NoCause when none), the value returned and
\* the save_result calls made.
AssembleAndSave(url, save_result, storage, cid, env, classified) ==
    IF ~ProcessingTimeValid(env.elapsed)
    THEN [raised |-> ValueError, value |-> None, saves |-> <<>>]
    ELSE
      LET pdf_links == LinksOfType(classified, "pdf")
          youtube_links == LinksOfType(classified, "youtube")
          other_links == LinksOfType(classified, "other")
          metadata == ExtractionMetadata(Len(classified), Len(pdf_links),
                                         Len(youtube_links), env.elapsed, cid)
          result == ExtractionResult(url, pdf_links, youtube_links,
                                     other_links, metadata)
          value == [result |-> result, content |-> env.fetch.value]
      IN  IF ShouldSave(save_result, storage)
          THEN IF env.save.kind = "raise"
               THEN [raised |-> env.save.error, value |-> None,
                     saves |-> <<result>>]
               ELSE [raised |-> NoCause, value |-> value, saves |-> <<result>>]
          ELSE [raised |-> NoCause, value |-> value, saves |-> <<>>]

\* The try block.  env gives the behaviour of the collaborators during the
\* call: env.fetch, env.parse, env.classify, env.save are Return/Raise
\* outcomes, env.elapsed is context.get_elapsed_time().
\* Yields raised (the exception that leaves the try block, NoCause when
\* none), value (what the block returns), stages (the stages entered, in
\* order) and saves (results passed to save_result).
TryBlock(url, save_result, storage, cid, env) ==
    IF env.fetch.kind = "raise"
    THEN [raised |-> env.fetch.error, value |-> None,
          stages |-> <<"fetch">>, saves |-> <<>>]
    ELSE IF env.parse.kind = "raise"
    THEN [raised |-> env.parse.error, value |-> None,
          stages |-> <<"fetch", "parse">>, saves |-> <<>>]
    ELSE IF env.classify.kind = "raise"
    THEN [raised |-> env.classify.error, value |-> None,
          stages |-> <<"fetch", "parse", "classify">>, saves |-> <<>>]
    ELSE
      LET r == AssembleAndSave(url, save_result, storage, cid, env,
                               env.classify.value)
      IN  [raised |-> r.raised, value |-> r.value,
           stages |-> <<"fetch", "parse", "classify", "assemble">>
                      \o (IF r.saves # <<>> THEN <<"save">> ELSE <<>>),
           saves |-> r.saves]

\* The whole call: the try block, then the except clause when it raised.
\* Yields out (what the call returns or raises), caught (the exception the
\* except clause received, NoCause when none), stages and saves.
extract_and_classify(url, save_result, storage, cid, env) ==
    LET context == ExtractionContext(url, cid)
        t == TryBlock(url, save_result, storage, cid, env)
    IN  [out |-> IF t.raised = NoCause THEN Return(t.value)
                 ELSE HandleFailure(t.raised, context),
         caught |-> t.raised, stages |-> t.stages, saves |-> t.saves]

\* --- behaviours of the collaborators ---------------------------------
\* errors a fetcher raises for url: the AsyncHttpClient's contextual error
\* (with the fetcher's own context) or an unexpected error
FetchErrors(url, c) ==
    {ContextualError("ContentExtractionError", ExtractionContext(url, c),
                     Exc("HTTPStatusError", NoContext, NoCause)),
     Exc("RuntimeError", NoContext, NoCause)}

\* errors a parser raises: BeautifulSoupLinkParser's LinkParsingError or an
\* unexpected error of another LinkParser
ParseErrors(url, c) ==
    {ContextualError("LinkParsingError", ExtractionContext(url, c),
                     Exc("TypeError", NoContext, NoCause)),
     Exc("TypeError", NoContext, NoCause)}

\* errors a classifier raises: RegexLinkClassifier's LinkClassificationError
\* (url "batch_classification", here 0) or pydantic's ValidationError that
\* ContextAwareClassifier lets through
ClassifyErrors(c) ==
    {ContextualError("LinkClassificationError", ExtractionContext(0, c),
                     Exc("ValueError", NoContext, NoCause)),
     Exc("ValidationError", NoContext, NoCause)}

\* sequences of link types of length at most n
TypeSeqs(n) == UNION {[1 .. k -> LinkTypes] : k \in 0 .. n}

\* classifier outputs for a page: at most n links
ClassifiedLists(page, n) ==
    {[i \in DOMAIN ts |-> ExtractedLink(page, i, ts[i])] : ts \in TypeSeqs(n)}

\* outcomes of the storage collaborator's save_result
SaveOutcomes == {Return("location"), Raise(ResultStorageError)}

\* a collaborator that the call never reaches
NotCalled == [kind |-> "notcalled"]

\* the collaborator behaviours of one call on url: a stage is given a
\* behaviour only when the stages before it succeed.  c is the last id
\* generated before the collaborators run, contents the possible page
\* contents, lists the possible classifier outputs, saves the possible
\* behaviours of save_result.
Envs(url, c, lists, contents, saves) ==
    {[fetch |-> Raise(e), parse |-> NotCalled, classify |-> NotCalled,
      elapsed |-> 0, save |-> NotCalled] : e \in FetchErrors(url, c + 1)}
    \cup
    {[fetch |-> Return(x[1]), parse |-> Raise(x[2]), classify |-> NotCalled,
      elapsed |-> 0, save |-> NotCalled] :
        x \in contents \X ParseErrors(url, c + 2)}
    \cup
    {[fetch |-> Return(x[1]), parse |-> Return("raw_links"),
      classify |-> Raise(x[2]), elapsed |-> 0, save |-> NotCalled] :
        x \in contents \X ClassifyErrors(c + 2)}
    \cup
    {[fetch |-> Return(x[1]), parse |-> Return("raw_links"),
      classify |-> Return(x[2]), elapsed |-> x[3], save |-> x[4]] :
        x \in contents \X lists \X ElapsedTimes \X saves}

\* ids generated while the collaborators of one call run: the fetcher always
\* generates one, a parser or classifier only for its error's context
CollaboratorIds(env) ==
    1 + (IF env.fetch.kind = "return"
            /\ (\/ env.parse.kind = "raise" /\ IsContextual(env.parse.error)
                \/ env.parse.kind = "return" /\ env.classify.kind = "raise"
                   /\ IsContextual(env.classify.error))
         THEN 1 ELSE 0)

ServiceIdle ==
    /\ result_storage = FALSE
    /\ stored = <<>>
    /\ s_pc = "idle"
    /\ s_in = [kind |-> "none"]
    /\ s_out = [kind |-> "none"]

\* ExtractionService.__init__: with or without a storage collaborator
ServiceInit ==
    /\ result_storage \in BOOLEAN
    /\ stored = <<>>
    /\ s_pc = "ready"
    /\ s_in = [kind |-> "none"]
    /\ s_out = [kind |-> "none"]

\* one call of extract_and_classify(url, save_result)
ExtractAndClassifyCall ==
    /\ s_pc = "ready"
    /\ \E url \in Urls, save_result \in BOOLEAN :
       \E env \in Envs(url, cidCounter + 1, ClassifiedLists(url, MaxLinks),
                        Bodies, SaveOutcomes) :
         LET cid == cidCounter + 1
             r == extract_and_classify(url, save_result, result_storage, cid, env)
         IN  /\ s_in' = [url |-> url, save_result |-> save_result,
                         cid |-> cid, env |-> env]
             /\ s_out' = r
             /\ stored' = stored \o r.saves
             /\ cidCounter' = cid + CollaboratorIds(env)
    /\ s_pc' = "done"
    /\ UNCHANGED result_storage
    /\ UNCHANGED fetchVars
    /\ UNCHANGED crawlVars
    /\ UNCHANGED concVars
    /\ UNCHANGED storageVars
    /\ UNCHANGED navVars
    /\ UNCHANGED classifyVars

NextExtract == ExtractAndClassifyCall

\* ------------------------------------------------------------------------
\* The web that a crawl sees
\* ------------------------------------------------------------------------
\* urlparse(url).netloc: the last URL is on another host
UrlHost(u) == IF u = NumUrls THEN "other.test" ELSE "site.test"

\* any(k in link.lower() for k in priority_keywords)
IsPriority(u) == u % 2 = 0

\* the start URLs tried: a plain page and a priority page of the site
StartUrls == {1, 2}

\* the content served at a URL
PageContent(u) == [page |-> u]

\* the sets of URLs that the anchors of a page can resolve to
AnchorSets == {a \in SUBSET Urls : Cardinality(a) <= MaxNav}

\* the classifier outputs for a page of a crawl: no link or one link
CrawlLinkLists(page) ==
    {<<>>} \cup {<<ExtractedLink(page, 1, t)>> : t \in LinkTypes}

\* variant: the links to other hosts are kept
NavigationLinkSet_AnyHost(anchors, base_url) == anchors

\* BeautifulSoupLinkParser.find_navigation_links: the set it collects from
\* the anchors of the content
NavigationLinkSet(anchors, base_url) ==
    {u \in anchors : UrlHost(u) = UrlHost(base_url)}

\* list(navigation_links): the orders in which a set can be listed
Listings(S) ==
    {q \in [1 .. Cardinality(S) -> S] : \A i, j \in DOMAIN q : i # j => q[i] # q[j]}

\* ------------------------------------------------------------------------
\* ExtractionService.crawl_and_extract (src/core/service.py)
\* ------------------------------------------------------------------------
InSeq(x, q) == \E i \in DOMAIN q : q[i] = x

\* variant: the loop runs while the frontier has a URL, whatever the budget
LoopCondition_NoBudget(queue, visited, m) == queue # <<>>

\* variant: only the pages that were extracted count against the budget
LoopCondition_CountOk(queue, visited, m) ==
    queue # <<>> /\ Len(SelectSeq(c_log, LAMBDA p : p.ok)) < m

\* variant: the loop tests the budget one page too late
LoopCondition_OffByOne(queue, visited, m) ==
    queue # <<>> /\ Cardinality(visited) <= m

\* while urls_to_visit and len(visited_urls) < max_pages
LoopCondition(queue, visited, m) ==
    queue # <<>> /\ Cardinality(visited) < m

\* variant: the non-priority links are put first
OrderedLinks_OthersFirst(navigation_links) ==
    SelectSeq(navigation_links, LAMBDA l : ~IsPriority(l))
    \o SelectSeq(navigation_links, IsPriority)

\* priority_links + other_links
OrderedLinks(navigation_links) ==
    LET priority_links == SelectSeq(navigation_links, IsPriority)
        other_links == SelectSeq(navigation_links,
                                 LAMBDA l : ~InSeq(l, priority_links))
    IN  priority_links \o other_links

\* variant: every link is appended, visited or queued or not
AppendNew_Unchecked(queue, links, visited) == queue \o links

\* variant: the new links are put in front of the queue, the last one first
AppendNew_Front(queue, links, visited) ==
    SelectSeq([i \in 1 .. Len(links) |-> links[Len(links) + 1 - i]],
              LAMBDA l : l \notin visited /\ ~InSeq(l, queue)) \o queue

\* for link in ordered_links: append it unless visited or queued
RECURSIVE AppendNew(_, _, _)
AppendNew(queue, links, visited) ==
    IF links = <<>> THEN queue
    ELSE LET link == Head(links) IN
         AppendNew(IF link \notin visited /\ ~InSeq(link, queue)
                   THEN Append(queue, link) ELSE queue,
                   Tail(links), visited)

\* variant: the aggregate is replaced by the result of the latest page
merge_with_TakeLatest(final, page_result) == Return(page_result)

\* final_result.merge_with(page_result): ExtractionResult defines no
\* merge_with, so the attribute lookup raises AttributeError
merge_with(final, page_result) ==
    Raise(Exc("AttributeError", NoContext, NoCause))

\* variant: the pages of a crawl are extracted with save_result=True
CrawlPersist_True == TRUE

\* save_result=False, the argument of the per-page extraction
CrawlPersist == FALSE

\* the except clause that handles an exception raised in the loop body
ExceptClause(e) ==
    IF IsContextual(e) THEN "ContextualExtractionError" ELSE "Exception"

CrawlIdle ==
    /\ c_pc = "idle"
    /\ start_url = 0
    /\ max_pages = 0
    /\ visited_urls = {}
    /\ urls_to_visit = <<>>
    /\ final_result = None
    /\ c_log = <<>>
    /\ c_last = [kind |-> "none"]
    /\ c_out = [kind |-> "none"]

\* crawl_and_extract(start_url, max_pages) up to the loop
CrawlInit ==
    /\ c_pc = "loop"
    /\ start_url \in StartUrls
    /\ max_pages \in -1 .. MaxPagesBound
    /\ visited_urls = {}
    /\ urls_to_visit = <<start_url>>
    /\ final_result = None
    /\ c_log = <<>>
    /\ c_last = [kind |-> "none"]
    /\ c_out = [kind |-> "none"]

\* what the try block of one iteration does after the page was extracted:
\* merge (or first assignment), then navigation-link discovery.
\* navs gives the possible behaviours of find_navigation_links on the page.
\* Yields the possible outcomes: final_result, urls_to_visit, the exception
\* caught (NoCause when none) and the behaviour of find_navigation_links.
AfterExtraction(final, page_result, navs, queue, visited) ==
    LET merged == IF final = None THEN Return(page_result)
                  ELSE merge_with(final, page_result)
    IN  IF merged.kind = "raise"
        THEN {[final |-> final, queue |-> queue,
               caught |-> merged.error, nav |-> NotCalled]}
        ELSE {IF nav.kind = "raise"
              THEN [final |-> merged.value, queue |-> queue,
                    caught |-> nav.error, nav |-> nav]
              ELSE [final |-> merged.value,
                    queue |-> AppendNew(queue, OrderedLinks(nav.value), visited),
                    caught |-> NoCause, nav |-> nav]
              : nav \in navs}

\* behaviours of find_navigation_links on a page: a listing (value) of the
\* set it collected from the anchors of the content, which occur there in
\* the order anchors; or the error of a parser that cannot find navigation
\* links
NavOutcomes(content, base_url) ==
    UNION {{[kind |-> "return", value |-> q, anchors |-> d] :
                q \in Listings(NavigationLinkSet(a, base_url)),
                d \in Listings(a)} : a \in AnchorSets}
    \cup {Raise(Exc("AttributeError", NoContext, NoCause))}

\* variant: the page is fetched once more for its navigation links
NavContent_Refetch(value, url) == [content |-> PageContent(url), fetches |-> 1]

\* result, content = await extract_and_classify(...): the content that is
\* handed to find_navigation_links, and the fetch calls made to have it
NavContent(value, url) == [content |-> value.content, fetches |-> 0]

\* variant: a URL whose extraction failed is queued once more
AfterFailure_Requeue(queue, url) == Append(queue, url)

\* the except clauses log the failure and the loop goes on: the frontier
\* is left as it is
AfterFailure(queue, url) == queue

\* the except clause (if any) that handled exception e
ClauseOf(e) == IF e = NoCause THEN "none" ELSE ExceptClause(e)

\* one iteration of the while loop
CrawlStep ==
    /\ c_pc = "loop"
    /\ LoopCondition(urls_to_visit, visited_urls, max_pages)
    /\ LET current_url == Head(urls_to_visit)
           queue == Tail(urls_to_visit)
       IN  IF current_url \in visited_urls
           THEN /\ urls_to_visit' = queue
                /\ c_last' = [kind |-> "skipped", url |-> current_url]
                /\ UNCHANGED <<visited_urls, final_result, c_log, cidCounter,
                               stored>>
           ELSE
             \E env \in Envs(current_url, cidCounter + 1,
                             CrawlLinkLists(current_url),
                             {PageContent(current_url)}, {NotCalled}) :
               LET cid == cidCounter + 1
                   visited == visited_urls \cup {current_url}
                   r == extract_and_classify(current_url, CrawlPersist,
                                             result_storage, cid, env)
                   fetches == Len(SelectSeq(r.stages, LAMBDA n : n = "fetch"))
               IN  /\ visited_urls' = visited
                   /\ cidCounter' = cid + CollaboratorIds(env)
                   /\ stored' = stored \o r.saves
                   /\ IF r.out.kind = "raise"
                      THEN /\ urls_to_visit' = AfterFailure(queue, current_url)
                           /\ UNCHANGED final_result
                           /\ c_last' = [kind |-> "failed", url |-> current_url,
                                         cid |-> cid, raised |-> r.caught,
                                         out |-> r.out, nav |-> NotCalled,
                                         caught |-> r.out.error,
                                         clause |-> ClauseOf(r.out.error)]
                           /\ c_log' = Append(c_log,
                                  [url |-> current_url, ok |-> FALSE,
                                   result |-> None,
                                   clause |-> ClauseOf(r.out.error),
                                   links |-> <<>>, appended |-> <<>>,
                                   fetches |-> fetches, content |-> None,
                                   nav_content |-> None])
                      ELSE \E a \in AfterExtraction(final_result,
                                        r.out.value.result,
                                        NavOutcomes(NavContent(r.out.value,
                                                        current_url).content,
                                                    current_url),
                                        queue, visited) :
                             /\ urls_to_visit' = a.queue
                             /\ final_result' = a.final
                             /\ c_last' = [kind |-> "extracted",
                                           url |-> current_url,
                                           cid |-> cid, raised |-> r.caught,
                                           out |-> Return(r.out.value.result),
                                           nav |-> a.nav,
                                           caught |-> a.caught,
                                           clause |-> ClauseOf(a.caught)]
                             /\ c_log' = Append(c_log,
                                    [url |-> current_url, ok |-> TRUE,
                                     result |-> r.out.value.result,
                                     clause |-> ClauseOf(a.caught),
                                     links |-> IF a.nav.kind = "return"
                                               THEN OrderedLinks(a.nav.value)
                                               ELSE <<>>,
                                     appended |-> SubSeq(a.queue,
                                                         Len(queue) + 1,
                                                         Len(a.queue)),
                                     fetches |-> IF a.nav = NotCalled
                                                 THEN fetches
                                                 ELSE fetches
                                                      + NavContent(r.out.value,
                                                          current_url).fetches,
                                     content |-> env.fetch.value,
                                     nav_content |-> IF a.nav = NotCalled
                                                     THEN None
                                                     ELSE NavContent(r.out.value,
                                                          current_url).content])
    /\ UNCHANGED <<c_pc, start_url, max_pages, c_out>>
    /\ UNCHANGED <<result_storage, s_pc, s_in, s_out>>
    /\ UNCHANGED fetchVars
    /\ UNCHANGED classifyVars
    /\ UNCHANGED concVars
    /\ UNCHANGED storageVars
    /\ UNCHANGED navVars

\* the code after the loop: build the empty result when no page succeeded
CrawlFinish ==
    /\ c_pc = "loop"
    /\ ~LoopCondition(urls_to_visit, visited_urls, max_pages)
    /\ IF final_result = None
       THEN IF ProcessingTimeValid(0)
            THEN /\ c_out' = Return(ExtractionResult(start_url, <<>>, <<>>, <<>>,
                                ExtractionMetadata(0, 0, 0, 0, cidCounter + 1)))
                 /\ cidCounter' = cidCounter + 1
                 /\ c_pc' = "returned"
            ELSE /\ c_out' = Raise(ValueError)
                 /\ c_pc' = "raised"
                 /\ UNCHANGED cidCounter
       ELSE /\ c_out' = Return(final_result)
            /\ c_pc' = "returned"
            /\ UNCHANGED cidCounter
    /\ UNCHANGED <<start_url, max_pages, visited_urls, urls_to_visit,
                   final_result, c_log, c_last>>
    /\ UNCHANGED serviceVars
    /\ UNCHANGED fetchVars
    /\ UNCHANGED classifyVars
    /\ UNCHANGED concVars
    /\ UNCHANGED storageVars
    /\ UNCHANGED navVars

NextCrawl == CrawlStep \/ CrawlFinish

\* ------------------------------------------------------------------------
\* Link candidates and the construction of an ExtractedLink
\* (src/core/models.py)
\* ------------------------------------------------------------------------
\* the URLs of the candidates
UrlSamples ==
    {"https://site.test/doc.pdf", "https://site.test/pdf/view",
     "https://youtube.com/watch?v=x", "https://youtube.com/playlist?list=x",
     "https://iframe.ly/x?url=https://youtu.be/v", "https://site.test/page",
     "not a url"}

\* the texts of the candidates: a text is a sequence of pieces, a piece
\* being a blank or a word
TextSamples == {<<>>, <<" ">>, <<"x">>, <<" ", "x", " ">>}

\* further URLs, for the rules of classification: a watch URL that ends in
\* .pdf, and iframe.ly URLs whose url parameter is percent-encoded (a
\* video, another page) or absent
RuleUrls ==
    {"https://youtube.com/watch?v=x.pdf",
     "https://iframe.ly/x?url=https%3A%2F%2Fyoutu.be%2Fv",
     "https://iframe.ly/x?url=https%3A%2F%2Fsite.test%2Fpage",
     "https://cdn.iframe.ly/abc"}

\* further texts, for the rules of classification
RuleTexts == {<<"3MB pdf">>, <<"watch">>, <<"3MB pdf", " ", "watch">>}

\* str.strip(): the text without its leading and trailing blanks
RECURSIVE lstrip(_)
lstrip(text) ==
    IF text # <<>> /\ Head(text) = " " THEN lstrip(Tail(text)) ELSE text

RECURSIVE rstrip(_)
rstrip(text) ==
    IF text # <<>> /\ text[Len(text)] = " "
    THEN rstrip(SubSeq(text, 1, Len(text) - 1)) ELSE text

\* variant: only the leading blanks are removed
strip_LeftOnly(text) == lstrip(text)

strip(text) == rstrip(lstrip(text))

\* text or default
TextOr(text, default) == IF text = <<>> THEN default ELSE text

\* HttpUrl accepts the URL
HttpUrlValid(url) == url # "not a url"

\* pydantic's ValidationError, a subclass of ValueError
ValidationError == Exc("ValidationError", NoContext, NoCause)

\* except ValueError catches the exception
IsValueError(e) == e.type \in {"ValueError", "ValidationError"}

\* ExtractedLink(url=url, link_text=text, link_type=type): the validated
\* link, or the ValidationError that the url, min_length=1 or
\* text_must_not_be_empty raises
NewExtractedLink(url, text, type) ==
    IF ~HttpUrlValid(url) \/ Len(text) < 1 \/ strip(text) = <<>>
    THEN Raise(ValidationError)
    ELSE Return([url |-> url, link_text |-> strip(text), link_type |-> type])

\* url.lower().endswith(".pdf")
EndsWithPdf(url) ==
    url \in {"https://site.test/doc.pdf", "https://youtube.com/watch?v=x.pdf"}

\* ExtractedLink.create_pdf_link
create_pdf_link(url, text) ==
    IF ~EndsWithPdf(url) THEN Raise(ValueError)
    ELSE NewExtractedLink(url, TextOr(text, <<"PDF Document">>), "pdf")

\* the youtube_patterns of create_youtube_link: watch, youtu.be, embed
FactoryYoutubePattern(url) ==
    url \in {"https://youtube.com/watch?v=x",
             "https://youtube.com/watch?v=x.pdf",
             "https://iframe.ly/x?url=https://youtu.be/v"}

\* ExtractedLink.create_youtube_link
create_youtube_link(url, text) ==
    IF ~FactoryYoutubePattern(url) THEN Raise(ValueError)
    ELSE NewExtractedLink(url, TextOr(text, <<"YouTube Video">>), "youtube")

\* ExtractedLink.create_other_link
create_other_link(url, text) ==
    NewExtractedLink(url, TextOr(text, <<url>>), "other")

\* ------------------------------------------------------------------------
\* RegexLinkClassifier (src/infrastructure/link_classifier.py)
\* ------------------------------------------------------------------------
\* any(pattern.search(url) for pattern in self._pdf_patterns): \.pdf$,
\* /pdf/ or pdf
RegexPdfPattern(url) ==
    url \in {"https://site.test/doc.pdf", "https://site.test/pdf/view",
             "https://youtube.com/watch?v=x.pdf"}

\* any(pattern.search(url) for pattern in self._youtube_patterns): watch,
\* youtu.be, embed or playlist
RegexYoutubePattern(url) ==
    url \in {"https://youtube.com/watch?v=x",
             "https://youtube.com/watch?v=x.pdf",
             "https://youtube.com/playlist?list=x",
             "https://iframe.ly/x?url=https://youtu.be/v"}

\* the body of the inner try: the factory method chosen by the patterns
RegexItem(url, text) ==
    IF RegexPdfPattern(url) THEN create_pdf_link(url, text)
    ELSE IF RegexYoutubePattern(url) THEN create_youtube_link(url, text)
    ELSE create_other_link(url, text)

\* ------------------------------------------------------------------------
\* ContextAwareClassifier (src/infrastructure/context_classifier.py)
\* ------------------------------------------------------------------------
\* any(pattern.search(url) for pattern in self._pdf_patterns): \.pdf$,
\* \.pdf[?#] or pdf.*download
ContextPdfPattern(url) ==
    url \in {"https://site.test/doc.pdf", "https://youtube.com/watch?v=x.pdf"}

\* any(p.search(url) for p in self._youtube_patterns): watch, youtu.be,
\* embed, youtube-nocookie.com or cdn.iframe.ly
ContextYoutubePattern(url) ==
    url \in {"https://youtube.com/watch?v=x",
             "https://youtube.com/watch?v=x.pdf",
             "https://iframe.ly/x?url=https://youtu.be/v",
             "https://cdn.iframe.ly/abc"}

\* variant: the video patterns are tried before the document patterns
classify_by_url_patterns_VideoFirst(url) ==
    IF ContextYoutubePattern(url) THEN "youtube"
    ELSE IF ContextPdfPattern(url) THEN "pdf"
    ELSE "other"

\* _classify_by_url_patterns
classify_by_url_patterns(url) ==
    IF ContextPdfPattern(url) THEN "pdf"
    ELSE IF ContextYoutubePattern(url) THEN "youtube"
    ELSE "other"

\* re.search(r"\d+\s*MB.*pdf", text, re.I)
SizeHintPdf(text) == InSeq("3MB pdf", text)

\* "iframe.ly" in lowered_url
IframeLy(url) ==
    url \in {"https://iframe.ly/x?url=https://youtu.be/v",
             "https://iframe.ly/x?url=https%3A%2F%2Fyoutu.be%2Fv",
             "https://iframe.ly/x?url=https%3A%2F%2Fsite.test%2Fpage",
             "https://cdn.iframe.ly/abc"}

\* the url query parameter of an iframe.ly URL, decoded by parse_qs,
\* matches a youtube pattern
ProxiedYoutube(url) ==
    url \in {"https://iframe.ly/x?url=https://youtu.be/v",
             "https://iframe.ly/x?url=https%3A%2F%2Fyoutu.be%2Fv"}

\* "watch" in text.lower()
TextHasWatch(text) == InSeq("watch", text)

\* _classify_with_context
classify_with_context(url, text) ==
    IF classify_by_url_patterns(url) # "other"
    THEN classify_by_url_patterns(url)
    ELSE IF SizeHintPdf(text) THEN "pdf"
    ELSE IF IframeLy(url) /\ ProxiedYoutube(url) THEN "youtube"
    ELSE IF TextHasWatch(text) THEN "youtube"
    ELSE "other"

\* variant: the type depends on what the call classified before
ContextItem_Stateful(url, text) ==
    NewExtractedLink(url, text,
                     IF k_classified = <<>> THEN classify_with_context(url, text)
                     ELSE "other")

\* the body of the for loop: classify, then construct the link
ContextItem(url, text) ==
    NewExtractedLink(url, text, classify_with_context(url, text))

\* ------------------------------------------------------------------------
\* classify_links, one call on a batch
\* ------------------------------------------------------------------------
Candidates == UrlSamples \X TextSamples

\* the candidates for the rules of classification
RuleCandidates == (UrlSamples \cup RuleUrls) \X (TextSamples \cup RuleTexts)

\* the batches of at most MaxLinks candidates, and the batches of one
\* candidate for the rules
Batches ==
    UNION {[1 .. n -> Candidates] : n \in 0 .. MaxLinks}
    \cup {<<c>> : c \in RuleCandidates}

Classifiers == {"regex", "context"}

\* what the classifier does with one candidate of the batch
ClassifyOne(impl, url, text) ==
    IF impl = "regex" THEN RegexItem(url, text) ELSE ContextItem(url, text)

\* the classifier handles the exception e of one candidate by skipping the
\* candidate: RegexLinkClassifier's except ValueError
SkipsInvalid(impl, e) == impl = "regex" /\ IsValueError(e)

\* the exception that leaves classify_links for the exception e of one
\* candidate: RegexLinkClassifier's outer except wraps it, the
\* ContextAwareClassifier has no handler
BatchError(impl, e, c) ==
    IF impl = "regex"
    THEN ContextualError("LinkClassificationError", ExtractionContext(0, c), e)
    ELSE e

\* __init__: the attributes of a classifier, its two lists of patterns
ClassifierAttributes(impl) ==
    IF impl = "regex"
    THEN [pdf_patterns |-> <<"\\.pdf$", "/pdf/", "pdf">>,
          youtube_patterns |-> <<"youtube\\.com/watch", "youtu\\.be/",
                                 "youtube\\.com/embed/",
                                 "youtube\\.com/playlist">>]
    ELSE [pdf_patterns |-> <<"\\.pdf$", "\\.pdf[?#]", "pdf.*download">>,
          youtube_patterns |-> <<"youtube\\.com/watch", "youtu\\.be/",
                                 "youtube\\.com/embed/",
                                 "youtube-nocookie\\.com",
                                 "cdn\\.iframe\\.ly/.*">>]

ClassifyIdle ==
    /\ k_pc = "idle"
    /\ k_impl = "none"
    /\ k_self = [kind |-> "none"]
    /\ k_links = <<>>
    /\ k_i = 0
    /\ k_classified = <<>>
    /\ k_out = [kind |-> "none"]

\* classify_links(links) up to the for loop
ClassifyInit ==
    /\ k_pc = "loop"
    /\ k_impl \in Classifiers
    /\ k_self = ClassifierAttributes(k_impl)
    /\ k_links \in Batches
    /\ k_i = 1
    /\ k_classified = <<>>
    /\ k_out = [kind |-> "none"]

\* one iteration of for url, text in links
ClassifyItem ==
    /\ k_pc = "loop"
    /\ k_i <= Len(k_links)
    /\ LET r == ClassifyOne(k_impl, k_links[k_i][1], k_links[k_i][2])
       IN  IF r.kind = "return"
           THEN /\ k_classified' = Append(k_classified, r.value)
                /\ k_i' = k_i + 1
                /\ UNCHANGED <<k_pc, k_out, cidCounter>>
           ELSE IF SkipsInvalid(k_impl, r.error)
           THEN /\ k_i' = k_i + 1
                /\ UNCHANGED <<k_pc, k_classified, k_out, cidCounter>>
           ELSE /\ k_pc' = "raised"
                /\ k_out' = Raise(BatchError(k_impl, r.error, cidCounter + 1))
                /\ cidCounter' = IF k_impl = "regex" THEN cidCounter + 1
                                 ELSE cidCounter
                /\ UNCHANGED <<k_i, k_classified>>
    /\ UNCHANGED <<k_impl, k_self, k_links>>
    /\ UNCHANGED fetchVars
    /\ UNCHANGED serviceVars
    /\ UNCHANGED crawlVars
    /\ UNCHANGED concVars
    /\ UNCHANGED storageVars
    /\ UNCHANGED navVars

\* return classified_links
ClassifyReturn ==
    /\ k_pc = "loop"
    /\ k_i > Len(k_links)
    /\ k_pc' = "returned"
    /\ k_out' = Return(k_classified)
    /\ UNCHANGED <<k_impl, k_self, k_links, k_i, k_classified, cidCounter>>
    /\ UNCHANGED fetchVars
    /\ UNCHANGED serviceVars
    /\ UNCHANGED crawlVars
    /\ UNCHANGED concVars
    /\ UNCHANGED storageVars
    /\ UNCHANGED navVars

NextClassify == ClassifyItem \/ ClassifyReturn

\* ------------------------------------------------------------------------
\* Concurrent crawl_and_extract calls on one service (src/core/service.py)
\* ------------------------------------------------------------------------
Invocations == {1, 2}

\* a page that no call has fetched yet, a page whose navigation links no
\* call has asked for yet
Unknown == [kind |-> "unknown"]

\* what a page serves to every call that fetches it: the fetch fails, or
\* it succeeds and the page has one document link
PageKinds == {"fail", "ok"}

\* CorrelationId.generate(): a uuid, new at every call; here the n-th id
\* that invocation i generates
NewId(i, n) == <<i, n>>

\* the behaviour of the collaborators on a page of the given kind; c is the
\* id that the fetcher generates
PageEnv(u, kind, c) ==
    IF kind = "fail"
    THEN [fetch |-> Raise(ContextualError("ContentExtractionError",
                              ExtractionContext(u, c),
                              Exc("HTTPStatusError", NoContext, NoCause))),
          parse |-> NotCalled, classify |-> NotCalled, elapsed |-> 0,
          save |-> NotCalled]
    ELSE [fetch |-> Return(PageContent(u)), parse |-> Return("raw_links"),
          classify |-> Return(<<ExtractedLink(u, 1, "pdf")>>), elapsed |-> 1,
          save |-> NotCalled]

\* a set of URLs listed in ascending order
RECURSIVE Ascending(_)
Ascending(S) ==
    IF S = {} THEN <<>>
    ELSE LET x == CHOOSE x \in S : \A y \in S : x <= y
         IN  <<x>> \o Ascending(S \ {x})

\* what find_navigation_links returns for a page, to every call that asks
Navs(base_url) ==
    {Return(Ascending(NavigationLinkSet(a, base_url))) : a \in AnchorSets}

\* crawl_and_extract(start_url, max_pages) up to the loop: the locals of
\* the invocation
NewInvocation(s, m) ==
    [pc |-> "loop", start_url |-> s, max_pages |-> m, visited_urls |-> {},
     urls_to_visit |-> <<s>>, final_result |-> None, current |-> 0,
     cid |-> 0, visits |-> <<>>, overlapped |-> FALSE,
     out |-> [kind |-> "none"]]

\* variant: the visited set is one set of the service, shared by its calls
VisitedOf_Shared(i, invs) == UNION {invs[j].visited_urls : j \in DOMAIN invs}

\* visited_urls, a local of invocation i
VisitedOf(i, invs) == invs[i].visited_urls

\* the code after the loop: what the call returns or raises
FinishOutcome(final, start, c) ==
    IF final = None
    THEN IF ProcessingTimeValid(0)
         THEN Return(ExtractionResult(start, <<>>, <<>>, <<>>,
                                      ExtractionMetadata(0, 0, 0, 0, c + 1)))
         ELSE Raise(ValueError)
    ELSE Return(final)

ConcIdle ==
    /\ inv = <<>>
    /\ web = <<>>

\* two calls: the first with the largest page budget, the second with any
ConcInit ==
    /\ \E starts \in [Invocations -> StartUrls], m \in 1 .. MaxPagesBound :
         inv = [i \in Invocations |->
                  NewInvocation(starts[i], IF i = 1 THEN MaxPagesBound ELSE m)]
    /\ web = [u \in Urls |-> [page |-> "unknown", nav |-> Unknown]]

\* invocation i tests the loop condition, pops a URL and, unless it is
\* visited, starts its extraction: the context is made and the fetch awaited
ConcBegin(i) ==
    /\ inv[i].pc = "loop"
    /\ LoopCondition(inv[i].urls_to_visit, VisitedOf(i, inv), inv[i].max_pages)
    /\ LET current_url == Head(inv[i].urls_to_visit)
           queue == Tail(inv[i].urls_to_visit)
       IN  IF current_url \in VisitedOf(i, inv)
           THEN inv' = [inv EXCEPT ![i].urls_to_visit = queue]
           ELSE inv' = [inv EXCEPT ![i].urls_to_visit = queue,
                                   ![i].visited_urls = @ \cup {current_url},
                                   ![i].visits = Append(@, current_url),
                                   ![i].current = current_url,
                                   ![i].cid = NewId(i, 2 * Len(inv[i].visits) + 1),
                                   ![i].pc = "awaiting"]
    /\ UNCHANGED <<web, cidCounter>>
    /\ UNCHANGED fetchVars
    /\ UNCHANGED serviceVars
    /\ UNCHANGED crawlVars
    /\ UNCHANGED classifyVars
    /\ UNCHANGED storageVars
    /\ UNCHANGED navVars

\* the extraction that invocation i awaits ends; the rest of the loop body
\* runs: merge, navigation links, frontier
ConcResume(i) ==
    /\ inv[i].pc = "awaiting"
    /\ LET u == inv[i].current IN
       \E kind \in (IF web[u].page = "unknown" THEN PageKinds
                    ELSE {web[u].page}) :
         LET navs == IF web[u].nav = Unknown THEN Navs(u) ELSE {web[u].nav}
             r == extract_and_classify(u, CrawlPersist, result_storage,
                                       inv[i].cid,
                                       PageEnv(u, kind,
                                           NewId(i, 2 * Len(inv[i].visits))))
             together == inv[i].overlapped
                         \/ \E j \in Invocations \ {i} : inv[j].pc = "awaiting"
         IN  /\ stored' = stored \o r.saves
             /\ IF r.out.kind = "raise"
                THEN /\ inv' = [inv EXCEPT ![i].pc = "loop",
                                           ![i].overlapped = together]
                     /\ web' = [web EXCEPT ![u].page = kind]
                ELSE \E a \in AfterExtraction(inv[i].final_result,
                                               r.out.value.result, navs,
                                               inv[i].urls_to_visit,
                                               VisitedOf(i, inv)) :
                       /\ inv' = [inv EXCEPT ![i].pc = "loop",
                                             ![i].overlapped = together,
                                             ![i].final_result = a.final,
                                             ![i].urls_to_visit = a.queue]
                       /\ web' = [web EXCEPT ![u].page = kind,
                                             ![u].nav = IF a.nav = NotCalled
                                                        THEN @ ELSE a.nav]
    /\ UNCHANGED <<result_storage, s_pc, s_in, s_out, cidCounter>>
    /\ UNCHANGED fetchVars
    /\ UNCHANGED crawlVars
    /\ UNCHANGED classifyVars
    /\ UNCHANGED storageVars
    /\ UNCHANGED navVars

\* invocation i leaves the loop and returns or raises
ConcFinish(i) ==
    /\ inv[i].pc = "loop"
    /\ ~LoopCondition(inv[i].urls_to_visit, VisitedOf(i, inv),
                      inv[i].max_pages)
    /\ LET o == FinishOutcome(inv[i].final_result, inv[i].start_url,
                              cidCounter)
       IN  /\ inv' = [inv EXCEPT ![i].out = o,
                                 ![i].pc = IF o.kind = "return" THEN "returned"
                                           ELSE "raised"]
           /\ cidCounter' = IF inv[i].final_result = None /\ o.kind = "return"
                            THEN cidCounter + 1 ELSE cidCounter
    /\ UNCHANGED web
    /\ UNCHANGED fetchVars
    /\ UNCHANGED serviceVars
    /\ UNCHANGED crawlVars
    /\ UNCHANGED classifyVars
    /\ UNCHANGED storageVars
    /\ UNCHANGED navVars

NextConc == \E i \in Invocations : ConcBegin(i) \/ ConcResume(i) \/ ConcFinish(i)

\* ------------------------------------------------------------------------
\* Result storage (src/infrastructure/local_storage.py, cloud_storage.py)
\* ------------------------------------------------------------------------
\* bound: how many uploads in a row can meet an existing blob
MaxCollisions == 2

\* a file name is the sequence of its pieces, the extension last;
\* filename=None is the empty sequence
NoFilename == <<>>

\* what open and write, and upload_blob can do
OpenOutcomes == {"ok", "FileExistsError", "PermissionError"}
UploadOutcomes == {"ok", "ResourceExistsError", "HttpResponseError"}

\* datetime.now().strftime(...) at the n-th reading of the clock; a later
\* reading gives a later timestamp
Timestamp(n) == ToString(n)

\* host.replace("www.", "")
StripWww(host) == IF host = "www.example.com" THEN "example.com" ELSE host

\* os.path.splitext(filename)
splitext(filename) ==
    IF Len(filename) > 1 /\ filename[Len(filename)] \in {".json", ".txt"}
    THEN [base |-> SubSeq(filename, 1, Len(filename) - 1),
          ext |-> <<filename[Len(filename)]>>]
    ELSE [base |-> filename, ext |-> <<>>]

\* if not filename.endswith(".json"): filename += ".json"
EnsureJson(filename) ==
    IF filename # <<>> /\ filename[Len(filename)] = ".json" THEN filename
    ELSE Append(filename, ".json")

\* variant: the error leaves save_result as it is
StorageFailure_Bare(e) == Raise(e)

\* raise ResultStorageError(...) from e
StorageFailure(e) == Raise(Exc("ResultStorageError", NoContext, e))

\* LocalFileStorage.save_result: max_retries = 1
local_max_retries == 1

\* variant: the retries are exhausted one collision later
RetriesExhausted_OneLater(retries) == retries > local_max_retries + 1

\* if retries > max_retries: all retries exhausted
RetriesExhausted(retries) == retries > local_max_retries

\* the try block of LocalFileStorage.save_result reads the clock
LocalReadsClock(filename, retries) == filename = NoFilename \/ retries > 0

\* the name under which LocalFileStorage.save_result opens the file
LocalFilename(filename, retries, host, now) ==
    LET effective_filename ==
            IF LocalReadsClock(filename, retries)
            THEN IF filename = NoFilename
                 THEN <<"extraction_", StripWww(host), "_", Timestamp(now),
                        ".json">>
                 ELSE splitext(filename).base \o <<"_", Timestamp(now)>>
                          \o splitext(filename).ext
            ELSE filename
    IN  EnsureJson(effective_filename)

\* except ResourceExistsError: the name of the recursive call
AzureRetryFilename(filename, now) ==
    SubSeq(filename, 1, Len(filename) - 1) \o <<"_", Timestamp(now), ".json">>

StorageIdle ==
    /\ st_pc = "idle"
    /\ st_impl = "none"
    /\ st_result = [kind |-> "none"]
    /\ st_filename = NoFilename
    /\ st_retries = 0
    /\ st_clock = 0
    /\ st_opens = <<>>
    /\ st_out = [kind |-> "none"]

\* save_result(result, filename) is called on a storage collaborator
StorageInit ==
    /\ st_pc = "try"
    /\ st_impl \in {"local", "azure"}
    /\ st_result \in [host : {"example.com", "www.example.com"},
                       dump : {"ok", "TypeError"}]
    /\ st_filename \in {NoFilename, <<"existing", ".json">>, <<"existing">>,
                         <<"existing", ".txt">>}
    /\ st_retries = 0
    /\ st_clock = 0
    /\ st_opens = <<>>
    /\ st_out = [kind |-> "none"]

\* one pass of the while loop of LocalFileStorage.save_result
LocalSaveAttempt ==
    /\ st_pc = "try"
    /\ st_impl = "local"
    /\ st_retries <= local_max_retries
    /\ \E open \in OpenOutcomes :
         LET now == IF LocalReadsClock(st_filename, st_retries)
                    THEN st_clock + 1 ELSE st_clock
             name == LocalFilename(st_filename, st_retries, st_result.host,
                                   now)
             dump == st_result.dump
             e == Exc(open, NoContext, NoCause)
         IN  /\ st_clock' = now
             /\ IF dump # "ok"
                THEN /\ st_out' = StorageFailure(Exc(dump, NoContext, NoCause))
                     /\ st_pc' = "raised"
                     /\ UNCHANGED <<st_retries, st_opens>>
                ELSE /\ st_opens' = Append(st_opens,
                                           [name |-> name, outcome |-> open])
                     /\ CASE open = "ok" ->
                               /\ st_out' = Return(name)
                               /\ st_pc' = "returned"
                               /\ UNCHANGED st_retries
                          [] open = "FileExistsError" ->
                               /\ st_retries' = st_retries + 1
                               /\ IF RetriesExhausted(st_retries + 1)
                                  THEN /\ st_out' = StorageFailure(e)
                                       /\ st_pc' = "raised"
                                  ELSE UNCHANGED <<st_out, st_pc>>
                          [] OTHER ->
                               /\ st_out' = StorageFailure(e)
                               /\ st_pc' = "raised"
                               /\ UNCHANGED st_retries
    /\ UNCHANGED <<st_impl, st_result, st_filename, cidCounter>>
    /\ UNCHANGED fetchVars
    /\ UNCHANGED serviceVars
    /\ UNCHANGED crawlVars
    /\ UNCHANGED classifyVars
    /\ UNCHANGED concVars
    /\ UNCHANGED navVars

\* one run of the body of AzureBlobStorage.save_result; on
\* ResourceExistsError the method calls itself with the new name and
\* returns what that call returns
AzureSaveAttempt ==
    /\ st_pc = "try"
    /\ st_impl = "azure"
    /\ IF st_filename = NoFilename
       THEN \* result.source_url.host: SourceUrl has no attribute host
            /\ st_out' = StorageFailure(Exc("AttributeError", NoContext,
                                            NoCause))
            /\ st_pc' = "raised"
            /\ UNCHANGED <<st_filename, st_retries, st_clock, st_opens>>
       ELSE \E upload \in UploadOutcomes :
              LET filename == EnsureJson(st_filename)
                  dump == st_result.dump
                  e == Exc(upload, NoContext, NoCause)
              IN  IF dump # "ok"
                  THEN /\ st_out' = StorageFailure(Exc(dump, NoContext,
                                                       NoCause))
                       /\ st_pc' = "raised"
                       /\ UNCHANGED <<st_filename, st_retries, st_clock,
                                      st_opens>>
                  ELSE /\ upload = "ResourceExistsError"
                           => st_retries < MaxCollisions
                       /\ st_opens' = Append(st_opens, [name |-> filename,
                                                        outcome |-> upload])
                       /\ CASE upload = "ok" ->
                                 /\ st_out' = Return(filename)
                                 /\ st_pc' = "returned"
                                 /\ UNCHANGED <<st_filename, st_retries,
                                                st_clock>>
                            [] upload = "ResourceExistsError" ->
                                 /\ st_clock' = st_clock + 1
                                 /\ st_filename' =
                                        AzureRetryFilename(filename,
                                                           st_clock + 1)
                                 /\ st_retries' = st_retries + 1
                                 /\ UNCHANGED <<st_out, st_pc>>
                            [] OTHER ->
                                 /\ st_out' = StorageFailure(e)
                                 /\ st_pc' = "raised"
                                 /\ UNCHANGED <<st_filename, st_retries,
                                                st_clock>>
    /\ UNCHANGED <<st_impl, st_result, cidCounter>>
    /\ UNCHANGED fetchVars
    /\ UNCHANGED serviceVars
    /\ UNCHANGED crawlVars
    /\ UNCHANGED classifyVars
    /\ UNCHANGED concVars
    /\ UNCHANGED navVars

NextStorage == LocalSaveAttempt \/ AzureSaveAttempt

\* ------------------------------------------------------------------------
\* BeautifulSoupLinkParser.find_navigation_links
\* (src/infrastructure/html_parser.py)
\* ------------------------------------------------------------------------
\* href values of the anchors of a page
HrefSamples ==
    {"", "javascript:void(0)", "#top", "mailto:a@site.test", "tel:123",
     "/next", "/doc.pdf", "/files.tar.gz", "https://other.test/x"}

\* _extract_anchor_links leaves the anchor out:
\* not (href and not href.startswith(("javascript:", "#", "mailto:", "tel:")))
AnchorSkipped(href) ==
    href \in {"", "javascript:void(0)", "#top", "mailto:a@site.test",
              "tel:123"}

\* urllib.parse.urljoin(base_url, href)
urljoin(base_url, href) ==
    CASE href = "#top" -> IF base_url = "https://site.test/page"
                          THEN "https://site.test/page#top"
                          ELSE "https://site.test/a/b#top"
      [] href = "/next" -> "https://site.test/next"
      [] href = "/doc.pdf" -> "https://site.test/doc.pdf"
      [] href = "/files.tar.gz" -> "https://site.test/files.tar.gz"
      [] href = "" -> base_url
      [] OTHER -> href

\* _is_valid_url: the URL has a scheme and a netloc
is_valid_url(url) ==
    url \notin {"javascript:void(0)", "mailto:a@site.test", "tel:123"}

\* variant: links to other hosts pass
NavigationFilter_AnyHost(full_url, base_url) ==
    /\ is_valid_url(full_url)
    /\ full_url \notin {"https://site.test/doc.pdf",
                         "https://site.test/files.tar.gz"}

\* the test under which find_navigation_links adds full_url
NavigationFilter(full_url, base_url) ==
    LET netloc(u) == IF u = "https://other.test/x" THEN "other.test"
                     ELSE "site.test"
        starts_with_skipped ==
            full_url \in {"javascript:void(0)", "mailto:a@site.test", "#top"}
        ends_with_download ==
            full_url \in {"https://site.test/doc.pdf",
                          "https://site.test/files.tar.gz"}
    IN  /\ is_valid_url(full_url)
        /\ netloc(full_url) = netloc(base_url)
        /\ ~starts_with_skipped
        /\ ~ends_with_download

NavIdle ==
    /\ n_pc = "idle"
    /\ n_base = "none"
    /\ n_content = <<>>
    /\ n_log = <<>>
    /\ n_links = {}
    /\ n_out = [kind |-> "none"]

\* find_navigation_links(content, base_url) is called for the page at
\* base_url, which the crawl has just visited
NavInit ==
    /\ n_pc = "loop"
    /\ n_base \in {"https://site.test/page", "https://site.test/a/b"}
    /\ n_content \in UNION {[1 .. n -> HrefSamples] : n \in 0 .. MaxNav}
    /\ n_log = <<>>
    /\ n_links = {}
    /\ n_out = [kind |-> "none"]

\* one pass of the loop over the anchors
NavAnchor ==
    /\ n_pc = "loop"
    /\ Len(n_log) < Len(n_content)
    /\ LET href == n_content[Len(n_log) + 1]
           full_url == urljoin(n_base, href)
           added == href # "" /\ NavigationFilter(full_url, n_base)
       IN  /\ n_links' = IF added THEN n_links \cup {full_url} ELSE n_links
           /\ n_log' = Append(n_log, [href |-> href, full_url |-> full_url,
                                      added |-> added])
    /\ UNCHANGED <<n_pc, n_base, n_content, n_out, cidCounter>>
    /\ UNCHANGED fetchVars
    /\ UNCHANGED serviceVars
    /\ UNCHANGED crawlVars
    /\ UNCHANGED classifyVars
    /\ UNCHANGED concVars
    /\ UNCHANGED storageVars

\* return list(navigation_links); the crawl appends to its frontier the
\* links that are not visited and not queued
NavReturn ==
    /\ n_pc = "loop"
    /\ Len(n_log) = Len(n_content)
    /\ \E q \in Listings(n_links) :
         n_out' = [kind |-> "return", value |-> q,
                   frontier |-> AppendNew(<<>>, q, {n_base})]
    /\ n_pc' = "returned"
    /\ UNCHANGED <<n_base, n_content, n_log, n_links, cidCounter>>
    /\ UNCHANGED fetchVars
    /\ UNCHANGED serviceVars
    /\ UNCHANGED crawlVars
    /\ UNCHANGED classifyVars
    /\ UNCHANGED concVars
    /\ UNCHANGED storageVars

NextNav == NavAnchor \/ NavReturn

\* ------------------------------------------------------------------------
\* Specifications
\* ------------------------------------------------------------------------
\* the fetcher alone
InitFetchSpec ==
    FetchInit /\ ServiceIdle /\ CrawlIdle /\ ClassifyIdle /\ ConcIdle
    /\ StorageIdle
    /\ NavIdle
    /\ cidCounter = 0

SpecFetch == InitFetchSpec /\ [][NextFetch]_vars

\* one extract_and_classify call on a service
InitExtractSpec ==
    FetchIdle /\ ServiceInit /\ CrawlIdle /\ ClassifyIdle /\ ConcIdle
    /\ StorageIdle
    /\ NavIdle
    /\ cidCounter = 0

SpecExtract == InitExtractSpec /\ [][NextExtract]_vars

\* one crawl_and_extract call on a service
InitCrawlSpec ==
    /\ FetchIdle
    /\ result_storage = TRUE /\ stored = <<>> /\ s_pc = "idle"
    /\ s_in = [kind |-> "none"] /\ s_out = [kind |-> "none"]
    /\ CrawlInit
    /\ ClassifyIdle
    /\ ConcIdle
    /\ StorageIdle
    /\ NavIdle
    /\ cidCounter = 0

SpecCrawl == InitCrawlSpec /\ [][NextCrawl]_vars

\* a step of the call as the event loop sees it: the loop body has run for
\* one more URL (CrawlStep), or the call has ended (CrawlFinish)
CrawlAdvance ==
    /\ c_pc = "loop"
    /\ \/ c_pc' \in {"returned", "raised"} /\ visited_urls' = visited_urls
       \/ /\ c_pc' = c_pc
          /\ \E u \in Urls \ visited_urls : visited_urls' = visited_urls \cup {u}

\* the same call when the coroutine is not abandoned: every awaited
\* extraction returns or raises, and the call goes on while it can
SpecCrawlFair == SpecCrawl /\ WF_<<c_pc, visited_urls>>(CrawlAdvance)

\* one classify_links call on a classifier
InitClassifySpec ==
    FetchIdle /\ ServiceIdle /\ CrawlIdle /\ ClassifyInit /\ ConcIdle
    /\ StorageIdle
    /\ NavIdle
    /\ cidCounter = 0

SpecClassify == InitClassifySpec /\ [][NextClassify]_vars

\* two crawl_and_extract calls that run concurrently on one service, which
\* has a storage collaborator
InitConcSpec ==
    /\ FetchIdle
    /\ result_storage = TRUE /\ stored = <<>> /\ s_pc = "idle"
    /\ s_in = [kind |-> "none"] /\ s_out = [kind |-> "none"]
    /\ CrawlIdle
    /\ ClassifyIdle
    /\ ConcInit
    /\ StorageIdle
    /\ NavIdle
    /\ cidCounter = 0

SpecConc == InitConcSpec /\ [][NextConc]_vars

\* one save_result call on a storage collaborator
InitStorageSpec ==
    FetchIdle /\ ServiceIdle /\ CrawlIdle /\ ClassifyIdle /\ ConcIdle
    /\ StorageInit
    /\ NavIdle
    /\ cidCounter = 0

SpecStorage == InitStorageSpec /\ [][NextStorage]_vars

\* one find_navigation_links call of a crawl
InitNavSpec ==
    FetchIdle /\ ServiceIdle /\ CrawlIdle /\ ClassifyIdle /\ ConcIdle
    /\ StorageIdle
    /\ NavInit
    /\ cidCounter = 0

SpecNav == InitNavSpec /\ [][NextNav]_vars

\* ------------------------------------------------------------------------
\* Properties of crawl_and_extract
\* ------------------------------------------------------------------------
CrawlTerminal == c_pc \in {"returned", "raised"}

\* the pages whose extraction succeeded, in visit order
OkPages == SelectSeq(c_log, LAMBDA p : p.ok)

\* the concatenation, in visit order, of one bucket of the per-page results
RECURSIVE ConcatBucket(_, _)
ConcatBucket(pages, bucket) ==
    IF pages = <<>> THEN <<>>
    ELSE Head(pages).result[bucket] \o ConcatBucket(Tail(pages), bucket)

Buckets == {"pdf_links", "youtube_links", "other_links"}

\* C1: for max_pages = M >= 1 the single-page extraction runs on at most M
\* distinct URLs and on each at most once; with M = 1 only on the start URL.
C1_PageBudget ==
    max_pages >= 1 =>
        /\ Len(c_log) <= max_pages
        /\ \A i, j \in DOMAIN c_log : i # j => c_log[i].url # c_log[j].url
        /\ {c_log[i].url : i \in DOMAIN c_log} = visited_urls
        /\ max_pages = 1 => \A i \in DOMAIN c_log : c_log[i].url = start_url

\* witness of C1: the budget of 2 pages is used up while a link is still queued
C1_Witness ==
    /\ c_pc = "returned" /\ max_pages = 2 /\ Len(c_log) = 2
    /\ urls_to_visit # <<>>

\* C2: if the extraction of a non-start page fails with a contextual error,
\* crawl_and_extract does not raise and the returned aggregate contains the
\* links of every page that was extracted successfully.
C2_PartialFailure ==
    (/\ CrawlTerminal
     /\ \E i \in DOMAIN c_log :
            /\ ~c_log[i].ok
            /\ c_log[i].url # start_url
            /\ c_log[i].clause = "ContextualExtractionError")
    => /\ c_pc = "returned"
       /\ \A i \in DOMAIN c_log : \A b \in Buckets :
            c_log[i].ok =>
                \A k \in DOMAIN c_log[i].result[b] :
                    InSeq(c_log[i].result[b][k], c_out.value[b])

\* C3: after a crawl in which k >= 2 pages are extracted successfully each
\* bucket of the aggregate is the concatenation, in visit order, of the
\* per-page buckets, and the total is the sum of the per-page totals.
C3_MergeConcat ==
    (CrawlTerminal /\ Len(OkPages) >= 2)
    => /\ c_pc = "returned"
       /\ \A b \in Buckets : c_out.value[b] = ConcatBucket(OkPages, b)
       /\ total_links(c_out.value) =
            Len(ConcatBucket(OkPages, "pdf_links"))
            + Len(ConcatBucket(OkPages, "youtube_links"))
            + Len(ConcatBucket(OkPages, "other_links"))

\* C4: when no page is extracted successfully, crawl_and_extract returns,
\* and does not raise, a result for the start URL with three empty buckets,
\* zero counts and a newly generated correlation id.
C4_EmptyResult ==
    (CrawlTerminal /\ OkPages = <<>>)
    => /\ c_pc = "returned"
       /\ c_out.kind = "return"
       /\ c_out.value.source_url = start_url
       /\ \A b \in Buckets : c_out.value[b] = <<>>
       /\ c_out.value.metadata.total_links_found = 0
       /\ c_out.value.metadata.pdf_count = 0
       /\ c_out.value.metadata.youtube_count = 0
       /\ c_out.value.metadata.correlation_id = cidCounter

\* ------------------------------------------------------------------------
\* Properties of extract_and_classify
\* ------------------------------------------------------------------------
\* the error raised by the first stage that fails (NoCause when none does)
StageError(env) ==
    IF env.fetch.kind = "raise" THEN env.fetch.error
    ELSE IF env.parse.kind = "raise" THEN env.parse.error
    ELSE IF env.classify.kind = "raise" THEN env.classify.error
    ELSE NoCause

TaxonomyContextual ==
    {"ContentExtractionError", "LinkParsingError", "LinkClassificationError"}

\* C8: a contextual stage error is re-raised as it is (type, context and
\* cause unchanged); a non-contextual stage error is wrapped exactly once, in
\* a contextual error with the call's own context and the original as cause.
C8_NoDoubleWrap ==
    (s_pc = "done" /\ StageError(s_in.env) # NoCause) =>
        LET e == StageError(s_in.env) IN
        /\ s_out.out.kind = "raise"
        /\ IF e.type \in TaxonomyContextual
           THEN s_out.out.error = e
           ELSE /\ s_out.out.error.type = "ContextualExtractionError"
                /\ s_out.out.error.context = [url |-> s_in.url,
                                              correlation_id |-> s_in.cid]
                /\ s_out.out.error.cause = e

\* witness of C8: a parser's contextual error, whose context is not the
\* call's own, leaves the call
C8_Witness ==
    /\ s_pc = "done"
    /\ StageError(s_in.env).type = "LinkParsingError"
    /\ StageError(s_in.env).context.correlation_id # s_in.cid
    /\ s_out.out.kind = "raise"

\* the unexpected error of the latest crawl iteration: a non-contextual
\* error raised inside the extraction, or one raised by navigation-link
\* discovery (NoCause when there is none)
UnexpectedError ==
    IF c_last.kind = "failed" /\ ~IsContextual(c_last.raised) THEN c_last.raised
    ELSE IF c_last.kind = "extracted" /\ c_last.nav.kind = "raise"
    THEN c_last.nav.error
    ELSE NoCause

\* C9 as stated: an unexpected, non-taxonomy error propagates out of
\* extract_and_classify and out of crawl_and_extract as itself.
C9_Original ==
    UnexpectedError # NoCause =>
        /\ c_last.kind = "failed" => c_last.out = Raise(c_last.raised)
        /\ c_pc = "raised"
        /\ c_out = Raise(UnexpectedError)

\* C9 as amended: an unexpected error raised inside the extraction leaves
\* extract_and_classify wrapped in a ContextualExtractionError that carries
\* the call's context and the original error as cause; crawl_and_extract
\* catches the exception that the processing of a page raises (the error of
\* the extraction, an error of navigation-link discovery) in one of its
\* except clauses and goes on with the loop: it does not re-raise it.
C9_WrappedAndCaught ==
    /\ (c_last.kind = "failed" /\ ~IsContextual(c_last.raised)) =>
          /\ c_last.out.kind = "raise"
          /\ c_last.out.error.type = "ContextualExtractionError"
          /\ c_last.out.error.context = [url |-> c_last.url,
                                         correlation_id |-> c_last.cid]
          /\ c_last.out.error.cause = c_last.raised
          /\ c_last.clause = "ContextualExtractionError"
    /\ (c_last.kind = "extracted" /\ c_last.nav.kind = "raise") =>
          /\ c_last.caught = c_last.nav.error
          /\ c_last.clause = "Exception"
    /\ UnexpectedError # NoCause =>
          /\ Len(c_log) > 0 /\ c_log[Len(c_log)].url = c_last.url
          /\ c_last.url \in visited_urls
          /\ c_last.clause \in {"ContextualExtractionError", "Exception"}
          /\ c_out.kind = "raise" => c_out.error # c_last.caught

\* witness of C9: a non-start page fails with a programming error inside a
\* stage and the crawl still returns
C9_Witness ==
    /\ c_pc = "returned"
    /\ Len(c_log) >= 2
    /\ c_last.kind = "failed"
    /\ c_last.raised.type = "RuntimeError"

\* C10: when persist is true, a storage collaborator is configured and its
\* save fails with ResultStorageError, extract_and_classify fails with a
\* ResultStorageError, not with a contextual extraction error.
C10_StorageErrorPropagates ==
    (/\ s_pc = "done"
     /\ s_in.save_result /\ result_storage
     /\ s_out.saves # <<>>
     /\ s_in.env.save = Raise(ResultStorageError))
    => /\ s_out.out.kind = "raise"
       /\ s_out.out.error.type = "ResultStorageError"
       /\ ~IsContextual(s_out.out.error)

\* ------------------------------------------------------------------------
\* Properties of the fetcher
\* ------------------------------------------------------------------------
FetchTerminal == fpc \in {"returned", "raised"}

\* a retryable failure: request timeout or HTTP 5xx
Retryable(r) ==
    \/ r.kind = "timeout"
    \/ r.kind = "status" /\ r.code >= 500 /\ r.code <= 599

\* a success: a status that raise_for_status accepts
SuccessResp(r) == r.kind = "status" /\ r.code >= 200 /\ r.code <= 299

\* a non-retryable failure: HTTP 4xx or a non-timeout transport error
NonRetryable(r) ==
    \/ r.kind = "transport"
    \/ r.kind = "status" /\ r.code >= 400 /\ r.code <= 499

NumGets == Cardinality({i \in DOMAIN f_events : f_events[i].op = "get"})

RECURSIVE SumSleeps(_)
SumSleeps(ev) ==
    IF ev = <<>> THEN 0
    ELSE (IF Head(ev).op = "sleep" THEN Head(ev).secs ELSE 0) + SumSleeps(Tail(ev))

\* number of leading retryable failures among the backend's responses
LeadingRetryable ==
    LET ks == {k \in 0 .. Len(f_responses) :
                  \A i \in 1 .. k : Retryable(f_responses[i])}
    IN  CHOOSE k \in ks : \A j \in ks : j <= k

\* C5: with max_retries = N >= 1 and a backend whose first k responses are
\* retryable failures followed by a success: if k < N exactly k+1 requests are
\* made and the body is returned; if k >= N exactly N requests are made and
\* ContentExtractionError is raised.
C5_RetryBound ==
    max_retries >= 1 =>
        LET k == LeadingRetryable
            N == max_retries
        IN  /\ NumGets <= N
            /\ NumGets = Len(f_responses)
            \* the call does not end while fewer than N retryable failures were seen
            /\ (FetchTerminal /\ k = Len(f_responses)) => k = N
            \* k < N failures, then the success
            /\ (k < Len(f_responses) /\ SuccessResp(f_responses[k + 1])) =>
                  /\ k < N
                  /\ fpc = "returned"
                  /\ NumGets = k + 1
                  /\ f_out = [kind |-> "return", value |-> f_responses[k + 1].body]
            \* N failures
            /\ k >= N =>
                  /\ fpc = "raised"
                  /\ NumGets = N
                  /\ f_out.kind = "raise"
                  /\ f_out.error.type = "ContentExtractionError"

\* witness of C5: a success after a timeout and a 5xx, in either order
C5_Witness ==
    /\ max_retries = 3 /\ fpc = "returned" /\ LeadingRetryable = 2 /\ NumGets = 3
    /\ f_responses[1].kind # f_responses[2].kind

\* C6: an attempt that ends with HTTP 4xx or a non-timeout transport error
\* raises ContentExtractionError at once: it is the last request and no backoff
\* wait follows it.
C6_NoRetryOn4xx ==
    \A i \in DOMAIN f_responses :
        NonRetryable(f_responses[i]) =>
            /\ i = Len(f_responses)
            /\ fpc = "raised"
            /\ f_out.kind = "raise"
            /\ f_out.error.type = "ContentExtractionError"
            /\ NumGets = i
            /\ f_events[Len(f_events)] = [op |-> "get", attempt |-> i, secs |-> 0]

\* witness of C6: a 4xx on a first attempt that had retries left
C6_Witness ==
    /\ max_retries >= 2
    /\ Len(f_responses) = 1
    /\ f_responses[1].kind = "status" /\ f_responses[1].code = 404
    /\ fpc = "raised"

\* C7: between failed attempt a and attempt a+1 the fetcher waits exactly 2^a,
\* and it waits only there: not before the first attempt, not after a success,
\* not after the final failed attempt; N failing attempts wait 2^N - 2 in all.
C7_Backoff ==
    /\ \A i \in DOMAIN f_events :
        LET e == f_events[i] IN
        /\ i = 1 => e.op = "get" /\ e.attempt = 1
        /\ (e.op = "get" /\ i < Len(f_events)) =>
              /\ f_events[i + 1].op = "sleep"
              /\ f_events[i + 1].attempt = e.attempt
        /\ e.op = "sleep" =>
              /\ i > 1
              /\ f_events[i - 1].op = "get"
              /\ e.secs = Pow2(e.attempt)
              /\ Retryable(f_responses[e.attempt])
              /\ e.attempt < max_retries
              /\ IF i < Len(f_events)
                 THEN f_events[i + 1] = [op |-> "get", attempt |-> e.attempt + 1, secs |-> 0]
                 ELSE fpc = "loop" /\ attempt = e.attempt + 1
    /\ (fpc = "raised" /\ max_retries >= 1 /\ LeadingRetryable = max_retries) =>
          SumSleeps(f_events) = Pow2(max_retries) - 2

\* witness of C7: three failing attempts, waits of 2 and 4
C7_Witness ==
    /\ max_retries = 3 /\ fpc = "raised" /\ LeadingRetryable = 3
    /\ SumSleeps(f_events) = 6
    /\ Len(f_events) = 5


\* ------------------------------------------------------------------------
\* Properties of extract_and_classify: saving and assembling the result
\* ------------------------------------------------------------------------
\* the call got as far as assembling a result: every stage returned and the
\* elapsed time made a ProcessingTime
Assembled ==
    /\ s_pc = "done"
    /\ s_in.env.fetch.kind = "return"
    /\ s_in.env.parse.kind = "return"
    /\ s_in.env.classify.kind = "return"
    /\ ProcessingTimeValid(s_in.env.elapsed)

\* the links the classifier returned to the call
Classified == s_in.env.classify.value

\* the result that the call assembled
AssembledResult ==
    ExtractionResult(s_in.url,
                     LinksOfType(Classified, "pdf"),
                     LinksOfType(Classified, "youtube"),
                     LinksOfType(Classified, "other"),
                     ExtractionMetadata(Len(Classified),
                                        Len(LinksOfType(Classified, "pdf")),
                                        Len(LinksOfType(Classified, "youtube")),
                                        s_in.env.elapsed, s_in.cid))

\* C11: extract_and_classify calls the storage collaborator's save exactly
\* once, with the assembled result, when persist is true and a storage
\* collaborator is configured; it never calls it when persist is false or
\* no collaborator is configured.
C11_SaveOnce ==
    s_pc = "done" =>
        /\ stored = s_out.saves
        /\ (Assembled /\ s_in.save_result /\ result_storage)
              => s_out.saves = <<AssembledResult>>
        /\ (~s_in.save_result \/ ~result_storage) => s_out.saves = <<>>
        /\ s_out.out.kind = "return" /\ s_out.saves # <<>>
              => s_out.saves = <<s_out.out.value.result>>

\* witness of C11: a call with persist true on a service with storage
\* returns after one save of a result that holds links
C11_Witness ==
    /\ s_pc = "done"
    /\ s_in.save_result /\ result_storage
    /\ s_out.out.kind = "return"
    /\ Len(stored) = 1
    /\ total_links(stored[1]) = 2


\* ------------------------------------------------------------------------
\* Properties of crawl_and_extract: storage, frontier and visit order
\* ------------------------------------------------------------------------
\* C12: crawl_and_extract never calls the storage collaborator: no step of
\* a crawl changes what is stored, though the service has a storage
\* collaborator.
C12_CrawlNeverSaves == [][result_storage => stored' = stored]_vars

\* witness of C12: on a service with storage a crawl returns after two
\* pages were extracted successfully
C12_Witness ==
    /\ result_storage
    /\ c_pc = "returned"
    /\ Len(OkPages) >= 2


\* a sequence without a repeated element
NoRepeat(q) == \A i, j \in DOMAIN q : i # j => q[i] # q[j]

\* the URLs visited before the page of entry i of the log was processed,
\* that page included
VisitedAt(i) == {c_log[k].url : k \in 1 .. i}

\* C13: at every iteration of the crawl loop the frontier holds no URL
\* twice and no visited URL; a navigation link that is visited or queued
\* already is not appended to the frontier.
C13_FrontierFresh ==
    /\ NoRepeat(urls_to_visit)
    /\ \A i \in DOMAIN urls_to_visit : urls_to_visit[i] \notin visited_urls
    /\ \A i \in DOMAIN c_log :
         /\ NoRepeat(c_log[i].appended)
         /\ \A k \in DOMAIN c_log[i].appended :
              c_log[i].appended[k] \notin VisitedAt(i)

\* witness of C13: a page's navigation links include the page itself, which
\* is visited, and another URL; only the other one is in the frontier
C13_Witness ==
    /\ c_pc = "loop"
    /\ c_last.kind = "extracted"
    /\ c_last.nav.kind = "return"
    /\ Len(c_last.nav.value) = 2
    /\ InSeq(c_last.url, c_last.nav.value)
    /\ Len(urls_to_visit) = 1


\* the positions of the log at which URL u was visited
VisitsOf(u) == {j \in DOMAIN c_log : c_log[j].url = u}

\* every visit of p is before every visit of q
VisitedBefore(p, q) == \A jp \in VisitsOf(p), jq \in VisitsOf(q) : jp < jq

\* C14 as stated: if a page yields a priority navigation link P and a
\* non-priority navigation link Q and both are visited, P is visited before Q.
C14_Original ==
    \A i \in DOMAIN c_log :
      \A x, y \in DOMAIN c_log[i].links :
        LET P == c_log[i].links[x]
            Q == c_log[i].links[y]
        IN  (IsPriority(P) /\ ~IsPriority(Q)
             /\ VisitsOf(P) # {} /\ VisitsOf(Q) # {})
            => VisitedBefore(P, Q)

\* C14: if a page's priority navigation link P and non-priority navigation
\* link Q are both appended to the frontier when that page is processed
\* (neither was visited or queued before) and both are visited, then P is
\* visited before Q, and Q is not visited unless P is.
C14_PriorityFirst ==
    \A i \in DOMAIN c_log :
      \A x, y \in DOMAIN c_log[i].appended :
        LET P == c_log[i].appended[x]
            Q == c_log[i].appended[y]
        IN  (IsPriority(P) /\ ~IsPriority(Q) /\ VisitsOf(Q) # {})
            => /\ VisitsOf(P) # {}
               /\ VisitedBefore(P, Q)

\* witness of C14: the start page yields a priority and a non-priority
\* link, both are appended and both are visited
C14_Witness ==
    /\ Len(c_log) = 3
    /\ Len(c_log[1].appended) = 2
    /\ IsPriority(c_log[1].appended[1])
    /\ ~IsPriority(c_log[1].appended[2])
    /\ c_log[2].url = c_log[1].appended[1]
    /\ c_log[3].url = c_log[1].appended[2]


\* the position of x in the sequence q (0 when x is not in q)
Pos(x, q) == IF InSeq(x, q) THEN CHOOSE i \in DOMAIN q : q[i] = x ELSE 0

\* C15: within the priority group and within the non-priority group, the
\* navigation links of a page are appended to the frontier in the order in
\* which they occur in the page's content.
C15_DiscoveryOrder ==
    (c_last.kind = "extracted" /\ c_last.nav.kind = "return") =>
        LET appended == c_log[Len(c_log)].appended
            anchors == c_last.nav.anchors
        IN  \A x, y \in DOMAIN appended :
              (/\ IsPriority(appended[x]) = IsPriority(appended[y])
               /\ Pos(appended[x], anchors) < Pos(appended[y], anchors))
              => x < y


\* ------------------------------------------------------------------------
\* Properties of extract_and_classify: buckets and counts
\* ------------------------------------------------------------------------
\* the field of the result that holds the bucket of a link type
BucketOf(t) ==
    IF t = "pdf" THEN "pdf_links"
    ELSE IF t = "youtube" THEN "youtube_links" ELSE "other_links"

\* the number of times x occurs in the sequence q
Occurrences(x, q) == Cardinality({i \in DOMAIN q : q[i] = x})

\* the links of q are in the order they have in the sequence base
InOrderOf(q, base) ==
    \A j, k \in DOMAIN q : j < k => Pos(q[j], base) < Pos(q[k], base)

\* C16: in a result that extract_and_classify returns every classified link
\* is once in the bucket of its type and in no other bucket, every bucket
\* holds classified links only, in the classifier's order, and total_links
\* is the sum of the three bucket lengths.
C16_Buckets ==
    (s_pc = "done" /\ s_out.out.kind = "return") =>
        LET r == s_out.out.value.result IN
        /\ \A i \in DOMAIN Classified : \A t \in LinkTypes :
             Occurrences(Classified[i], r[BucketOf(t)]) =
                 IF Classified[i].link_type = t THEN 1 ELSE 0
        /\ \A b \in Buckets :
             /\ \A k \in DOMAIN r[b] : InSeq(r[b][k], Classified)
             /\ InOrderOf(r[b], Classified)
        /\ total_links(r) =
             Len(r.pdf_links) + Len(r.youtube_links) + Len(r.other_links)
        /\ total_links(r) = Len(Classified)

\* witness of C16: a returned result whose classifier output has two links
\* of one type
C16_Witness ==
    /\ s_pc = "done" /\ s_out.out.kind = "return"
    /\ Len(Classified) = 2
    /\ Classified[1].link_type = Classified[2].link_type
    /\ Len(s_out.out.value.result[BucketOf(Classified[1].link_type)]) = 2

\* C17: in a result that extract_and_classify returns, total_links_found is
\* the number of classified links and the result's total_links, pdf_count
\* and youtube_count are the lengths of their buckets, and
\* pdf_count + youtube_count <= total_links_found.
C17_Counts ==
    (s_pc = "done" /\ s_out.out.kind = "return") =>
        LET r == s_out.out.value.result
            md == r.metadata
        IN  /\ md.total_links_found = Len(Classified)
            /\ md.total_links_found = total_links(r)
            /\ md.pdf_count = Len(r.pdf_links)
            /\ md.youtube_count = Len(r.youtube_links)
            /\ md.pdf_count >= 0 /\ md.youtube_count >= 0
            /\ md.pdf_count + md.youtube_count <= md.total_links_found

\* witness of C17: a returned result with a pdf link and an other link
C17_Witness ==
    /\ s_pc = "done" /\ s_out.out.kind = "return"
    /\ s_out.out.value.result.metadata.pdf_count = 1
    /\ s_out.out.value.result.metadata.youtube_count = 0
    /\ s_out.out.value.result.metadata.total_links_found = 2


\* ------------------------------------------------------------------------
\* Properties of crawl_and_extract: the source URL of the aggregate
\* ------------------------------------------------------------------------
\* C18: a result that crawl_and_extract returns has the start URL as its
\* source_url, whichever pages succeeded or failed and however many page
\* results were met after the first.
C18_SourceUrl ==
    /\ c_pc = "returned" => c_out.value.source_url = start_url
    /\ final_result # None => final_result.source_url = start_url

\* witness of C18: a crawl returns after the start page and a later page
\* were extracted successfully and another page failed
C18_Witness ==
    /\ c_pc = "returned"
    /\ Len(c_log) = 3
    /\ Len(OkPages) = 2
    /\ OkPages[2].result.source_url # start_url
    /\ c_out.value.source_url = start_url


\* ------------------------------------------------------------------------
\* Properties of classify_links
\* ------------------------------------------------------------------------
ClassifyTerminal == k_pc \in {"returned", "raised"}

\* the classifier's construction step rejects candidate i of the batch
Rejected(i) ==
    ClassifyOne(k_impl, k_links[i][1], k_links[i][2]).kind = "raise"

\* the links of the candidates from position i on that are not rejected
RECURSIVE AcceptedFrom(_)
AcceptedFrom(i) ==
    IF i > Len(k_links) THEN <<>>
    ELSE (IF Rejected(i) THEN <<>>
          ELSE <<ClassifyOne(k_impl, k_links[i][1], k_links[i][2]).value>>)
         \o AcceptedFrom(i + 1)

\* C20: classify_links tolerates an invalid candidate: the call returns,
\* the rejected candidates alone are dropped and the link of every other
\* candidate of the batch is returned.
C20_DropsInvalidOnly ==
    ClassifyTerminal =>
        /\ k_out.kind = "return"
        /\ k_out.value = AcceptedFrom(1)


\* ------------------------------------------------------------------------
\* Properties of concurrent invocations
\* ------------------------------------------------------------------------
\* the crawl of (start_url, m) run alone, from the loop state given, on the
\* pages that web records: the URLs it visits and its aggregate.  defined
\* is FALSE when the run needs a page that web does not record.
RECURSIVE AloneRun(_, _, _, _, _)
AloneRun(queue, visited, final, visits, m) ==
    IF ~LoopCondition(queue, visited, m)
    THEN [defined |-> TRUE, visits |-> visits, final |-> final]
    ELSE
      LET u == Head(queue)
          rest == Tail(queue)
      IN  IF u \in visited THEN AloneRun(rest, visited, final, visits, m)
          ELSE IF web[u].page = "unknown"
          THEN [defined |-> FALSE, visits |-> visits, final |-> final]
          ELSE
            LET v == visited \cup {u}
                r == extract_and_classify(u, CrawlPersist, result_storage, 0,
                                          PageEnv(u, web[u].page, 0))
            IN  IF r.out.kind = "raise"
                THEN AloneRun(rest, v, final, Append(visits, u), m)
                ELSE
                  LET navs == IF web[u].nav = Unknown THEN {}
                              ELSE {web[u].nav}
                      after == AfterExtraction(final, r.out.value.result,
                                               navs, rest, v)
                  IN  IF after = {}
                      THEN [defined |-> FALSE, visits |-> visits,
                            final |-> final]
                      ELSE LET a == CHOOSE x \in after : TRUE
                           IN  AloneRun(a.queue, v, a.final,
                                        Append(visits, u), m)

Alone(start, m) == AloneRun(<<start>>, {}, None, <<>>, m)

\* an outcome without the correlation id, which is new in every run
WithoutId(out) ==
    IF out.kind = "return"
    THEN Return([out.value EXCEPT !.metadata.correlation_id = 0])
    ELSE out

ConcTerminal(i) == inv # <<>> /\ inv[i].pc \in {"returned", "raised"}

\* C19: under every interleaving of two invocations on one service, each
\* invocation visits the URLs, in the order, and returns the result (or
\* raises the error) that it visits and returns when it runs alone.
C19_Isolation ==
    \A i \in Invocations :
      ConcTerminal(i) =>
        LET a == Alone(inv[i].start_url, inv[i].max_pages) IN
        /\ a.defined
        /\ inv[i].visits = a.visits
        /\ WithoutId(inv[i].out) =
             WithoutId(FinishOutcome(a.final, inv[i].start_url, 0))

\* witness of C19: two invocations from the same start URL have both
\* returned after two pages each, and each had an extraction end while an
\* extraction of the other was in flight
C19_Witness ==
    /\ ConcTerminal(1) /\ ConcTerminal(2)
    /\ inv[1].out.kind = "return" /\ inv[2].out.kind = "return"
    /\ inv[1].start_url = inv[2].start_url
    /\ Len(inv[1].visits) = 2 /\ Len(inv[2].visits) = 2
    /\ inv[1].overlapped /\ inv[2].overlapped


\* a candidate that the ExtractedLink constructor accepts: an http(s) URL
\* and a text that is not blank
WellFormed(c) == HttpUrlValid(c[1]) /\ strip(c[2]) # <<>>

\* C21: for a batch of well-formed candidates classify_links returns one
\* link per candidate, in input order, with the candidate's URL and
\* (trimmed) text; no valid candidate is dropped.
C21_OnePerCandidate ==
    (ClassifyTerminal /\ \A i \in DOMAIN k_links : WellFormed(k_links[i]))
    => /\ k_out.kind = "return"
       /\ Len(k_out.value) = Len(k_links)
       /\ \A i \in DOMAIN k_links :
            /\ k_out.value[i].url = k_links[i][1]
            /\ k_out.value[i].link_text = strip(k_links[i][2])


\* the type of link i returned by a ContextAwareClassifier, and the URL and
\* text of its candidate
TypeAt(i) == k_out.value[i].link_type
UrlAt(i) == k_links[i][1]
TextAt(i) == k_links[i][2]

\* the URL of candidate i matches a URL pattern
UrlPatternAt(i) == ContextPdfPattern(UrlAt(i)) \/ ContextYoutubePattern(UrlAt(i))

\* the proxy-host check finds a wrapped video URL in the URL of candidate i
ProxyVideoAt(i) == IframeLy(UrlAt(i)) /\ ProxiedYoutube(UrlAt(i))

ContextReturned == k_impl = "context" /\ k_pc = "returned"

PureSoFar ==
    k_impl = "context" =>
      /\ \A i \in DOMAIN k_classified :
           k_classified[i].link_type =
               classify_with_context(k_links[i][1], k_links[i][2])
      /\ \A i, j \in DOMAIN k_classified :
           k_links[i] = k_links[j]
               => k_classified[i].link_type = k_classified[j].link_type

StorageTerminal == st_pc \in {"returned", "raised"}

\* the write attempts that met an existing file
Collisions == SelectSeq(st_opens, LAMBDA o : o.outcome = "FileExistsError")

\* save_result raised ResultStorageError
RaisedStorageError ==
    /\ st_pc = "raised"
    /\ st_out.kind = "raise"
    /\ st_out.error.type = "ResultStorageError"

C25_OnlyStorageError ==
    /\ st_pc = "returned" => st_out.kind = "return" /\ st_out.value # NoFilename
    /\ st_pc = "raised" => RaisedStorageError
    /\ st_pc = "try" => st_out = [kind |-> "none"]

\* witness of C25: the upload met an existing blob, and the upload of the
\* recursive call failed
C25_Witness ==
    /\ st_impl = "azure"
    /\ RaisedStorageError
    /\ st_out.error.cause.type = "HttpResponseError"
    /\ Len(st_opens) = 2


\* a display text with no blank at either end, and not empty
Trimmed(text) == text # <<>> /\ Head(text) # " " /\ text[Len(text)] # " "

\* the text that the classifier hands to ExtractedLink for the candidate
\* text: the factory methods of RegexLinkClassifier put a default in the
\* place of an empty text
TextsGiven(url, text) ==
    IF k_impl = "regex"
    THEN {TextOr(text, <<"PDF Document">>), TextOr(text, <<"YouTube Video">>),
          TextOr(text, <<url>>)}
    ELSE {text}

\* C26: every ExtractedLink that a classifier has built has a display text
\* that is not empty and has no leading or trailing whitespace: it is the
\* trimmed form of the text given for it, and a text that is empty or
\* whitespace only gives no link.
C26_TextTrimmed ==
    /\ \A i \in DOMAIN k_classified :
         /\ Trimmed(k_classified[i].link_text)
         /\ \E j \in DOMAIN k_links :
              /\ k_links[j][1] = k_classified[i].url
              /\ \E t \in TextsGiven(k_links[j][1], k_links[j][2]) :
                   /\ ~(t = <<>> \/ \A n \in DOMAIN t : t[n] = " ")
                   /\ k_classified[i].link_text = strip(t)
    /\ k_impl = "context" =>
         \A i \in DOMAIN k_classified :
           /\ \E n \in DOMAIN k_links[i][2] : k_links[i][2][n] # " "
           /\ k_classified[i].link_text = strip(k_links[i][2])

\* witness of C26: a text with blanks around it was stored trimmed, after a
\* candidate with a whitespace-only text was left out
C26_Witness ==
    /\ k_impl = "regex"
    /\ k_pc = "returned"
    /\ Len(k_links) = 2
    /\ k_links[1][2] = <<" ">>
    /\ k_links[2][2] = <<" ", "x", " ">>
    /\ Len(k_out.value) = 1
    /\ k_out.value[1].link_text = <<"x">>


\* ------------------------------------------------------------------------
\* Order of the stages of extract_and_classify
\* ------------------------------------------------------------------------
StageOrder == <<"fetch", "parse", "classify", "assemble", "save">>

\* stage name succeeded in the call that has been made
StageSucceeded(name) ==
    CASE name = "fetch" -> s_in.env.fetch.kind = "return"
      [] name = "parse" -> s_in.env.parse.kind = "return"
      [] name = "classify" -> s_in.env.classify.kind = "return"
      [] name = "assemble" -> ProcessingTimeValid(s_in.env.elapsed)
      [] OTHER -> s_in.env.save.kind = "return"

\* C27: in one extract_and_classify call the stages run in the order fetch,
\* parse, classify, assemble and, when asked for, persist, each at most
\* once and only after every earlier stage succeeded; once a stage has
\* failed no later stage runs, no save is made after a failure of an
\* earlier stage, and the call raises.
C27_StageOrder ==
    s_pc = "done" =>
      LET stages == s_out.stages
      IN  /\ Len(stages) \in 1 .. Len(StageOrder)
          /\ stages = SubSeq(StageOrder, 1, Len(stages))
          /\ \A i \in 1 .. Len(stages) - 1 : StageSucceeded(stages[i])
          /\ Len(s_out.saves) = (IF Len(stages) = 5 THEN 1 ELSE 0)
          /\ stored = s_out.saves
          /\ Len(stages) = 5 => s_in.save_result /\ result_storage
          /\ ~StageSucceeded(stages[Len(stages)]) => s_out.out.kind = "raise"
          /\ StageSucceeded(stages[Len(stages)]) =>
               /\ Len(stages) >= 4
               /\ s_out.out.kind = "return"
               /\ Len(stages) = 4 => ~(s_in.save_result /\ result_storage)

\* witness of C27: the assembly failed in a call that was to persist its
\* result: nothing was saved and the call raised
C27_Witness ==
    /\ s_pc = "done"
    /\ s_in.save_result /\ result_storage
    /\ s_out.stages = <<"fetch", "parse", "classify", "assemble">>
    /\ ~ProcessingTimeValid(s_in.env.elapsed)
    /\ stored = <<>>
    /\ s_out.out.kind = "raise"


\* ------------------------------------------------------------------------
\* Order of the visits of a crawl
\* ------------------------------------------------------------------------
\* the URLs visited so far, in visit order
VisitSeq == [i \in DOMAIN c_log |-> c_log[i].url]

\* the URLs appended to the frontier by the pages 1 .. n of the log, in the
\* order of the append calls
RECURSIVE AppendedBy(_)
AppendedBy(n) == IF n = 0 THEN <<>> ELSE AppendedBy(n - 1) \o c_log[n].appended

\* the entries of the log whose page appended url to the frontier
QueuedBy(url) == {k \in DOMAIN c_log : InSeq(url, c_log[k].appended)}

\* C28: the crawl visits the URLs in the order in which they were appended
\* to the frontier, the start URL first and the links of one page in the
\* order of the loop over ordered_links; a link queued from a page visited
\* earlier is visited before a link first queued from a page visited later.
C28_Fifo ==
    /\ c_pc # "idle"
         => VisitSeq \o urls_to_visit = <<start_url>> \o AppendedBy(Len(c_log))
    /\ \A k \in DOMAIN c_log :
         \A i, j \in DOMAIN c_log[k].appended :
           i < j => /\ InSeq(c_log[k].appended[i], c_log[k].links)
                    /\ Pos(c_log[k].appended[i], c_log[k].links)
                           < Pos(c_log[k].appended[j], c_log[k].links)
    /\ \A i, j \in DOMAIN c_log :
         i < j => \A p \in QueuedBy(c_log[i].url), q \in QueuedBy(c_log[j].url) :
                    p <= q

\* witness of C28: the first page queued two links, the one appended first
\* was visited second and the other one third
C28_Witness ==
    /\ Len(c_log) = 3
    /\ Len(c_log[1].appended) = 2
    /\ c_log[2].url = c_log[1].appended[1]
    /\ c_log[3].url = c_log[1].appended[2]
    /\ c_log[1].links[1] = c_log[2].url


\* C29: every URL that a crawl visits causes exactly one fetch call, and
\* the navigation links of a page are derived from the content that the
\* extraction of that page returned, not from another fetch.
C29_OneFetchPerVisit ==
    /\ \A k \in DOMAIN c_log :
         /\ c_log[k].fetches = 1
         /\ c_log[k].nav_content # None
              => /\ c_log[k].ok
                 /\ c_log[k].nav_content = c_log[k].content
    /\ c_last.kind = "extracted" /\ c_last.nav # NotCalled
         => c_log[Len(c_log)].nav_content = PageContent(c_last.url)

\* witness of C29: two pages were visited, the navigation links of the
\* first one were looked up in its content and the second one was one of
\* them
C29_Witness ==
    /\ Len(c_log) >= 2
    /\ c_log[1].ok
    /\ c_log[1].nav_content = PageContent(c_log[1].url)
    /\ InSeq(c_log[2].url, c_log[1].appended)
    /\ c_log[2].fetches = 1


\* ------------------------------------------------------------------------
\* Properties of find_navigation_links
\* ------------------------------------------------------------------------
\* C30: find_navigation_links skips the anchors that parse_links skips: an
\* anchor whose href is empty or starts with javascript:, #, mailto: or tel:
\* adds no URL to the navigation links, and no entry of the frontier comes
\* from such an anchor alone.
C30_SameSkipping ==
    /\ \A i \in DOMAIN n_log : AnchorSkipped(n_log[i].href) => ~n_log[i].added
    /\ n_pc = "returned" =>
         \A k \in DOMAIN n_out.frontier :
           \E i \in DOMAIN n_log :
             /\ ~AnchorSkipped(n_log[i].href)
             /\ n_log[i].full_url = n_out.frontier[k]


\* urlparse(url).netloc of the URLs that find_navigation_links can return
NavHost(url) == IF url = "https://other.test/x" THEN "other.test" ELSE "site.test"

\* C31: every URL that find_navigation_links returns has the host of
\* base_url and does not end in .pdf, .zip, .tar.gz, .docx, .xlsx or .pptx,
\* and no URL is returned twice.
C31_NavigationLinks ==
    n_pc = "returned" =>
      /\ \A k \in DOMAIN n_out.value :
           /\ NavHost(n_out.value[k]) = NavHost(n_base)
           /\ n_out.value[k] \notin {"https://site.test/doc.pdf",
                                     "https://site.test/files.tar.gz"}
           /\ \E i \in DOMAIN n_log : n_log[i].full_url = n_out.value[k]
      /\ \A j, k \in DOMAIN n_out.value :
           j # k => n_out.value[j] # n_out.value[k]

\* witness of C31: a page links twice to one page of its host; the page is
\* returned once
C31_Witness ==
    /\ n_pc = "returned"
    /\ n_content = <<"/next", "/next">>
    /\ n_out.value = <<"https://site.test/next">>

\* C32: a link on the host iframe.ly is a Video by unwrapping: it is a Video
\* when the URL in its url query parameter matches a video pattern, and no
\* rule makes it a Video from its host alone when that URL is absent or
\* matches no video pattern (the word watch in its text aside).
C32_Unwrap ==
    ContextReturned =>
      \A i \in DOMAIN k_links :
        IframeLy(UrlAt(i)) =>
          /\ ProxiedYoutube(UrlAt(i)) => TypeAt(i) = "youtube"
          /\ (~ProxiedYoutube(UrlAt(i)) /\ ~TextHasWatch(TextAt(i)))
                => TypeAt(i) # "youtube"

\* the uploads that met an existing blob
BlobCollisions ==
    SelectSeq(st_opens, LAMBDA o : o.outcome = "ResourceExistsError")

\* C33: AzureBlobStorage.save_result makes at most one retry: after an
\* upload that met an existing blob it uploads once more under another
\* name, and a second collision ends the call with ResultStorageError, with
\* no third upload.
C33_AzureOneRetry ==
    st_impl = "azure" =>
      /\ Len(st_opens) <= 2
      /\ \A i \in DOMAIN st_opens :
           i > 1 => st_opens[i].name # st_opens[i - 1].name
      /\ Len(BlobCollisions) = 2 => RaisedStorageError

\* C34: crawl_and_extract terminates for every max_pages and every link
\* graph, cyclic ones included: every run of the loop body adds one new URL
\* to visited_urls, the loop body runs at most max(max_pages, 0) times, and
\* the call returns or raises.
C34_Terminates ==
    /\ <>CrawlTerminal
    /\ [](Cardinality(visited_urls) <= (IF max_pages > 0 THEN max_pages ELSE 0))
    /\ [][c_pc' = c_pc
            => Cardinality(visited_urls') = Cardinality(visited_urls) + 1]_vars

\* witness of C34: a crawl has ended whose start page links to itself and
\* to another page, which was visited
C34_Witness ==
    /\ CrawlTerminal
    /\ max_pages = MaxPagesBound
    /\ Len(c_log) = 2
    /\ c_log[1].url = start_url
    /\ InSeq(start_url, c_log[1].links)
    /\ c_log[1].appended = <<c_log[2].url>>

\* C35: when the extraction of the start URL fails, the crawl visits that
\* URL only: no navigation link is looked for, the frontier is empty, and
\* the loop ends after this one attempt, whatever max_pages is.
C35_StartFails ==
    /\ (Len(c_log) = 1 /\ c_last.kind \in {"failed", "extracted"}
        /\ c_last.raised # NoCause)
         => /\ ~c_log[1].ok
            /\ c_last.nav = NotCalled
            /\ c_log[1].appended = <<>>
            /\ urls_to_visit = <<>>
            /\ ~LoopCondition(urls_to_visit, visited_urls, max_pages)
    /\ (c_log # <<>> /\ ~c_log[1].ok)
         => /\ Len(c_log) = 1
            /\ visited_urls = {start_url}
            /\ c_log[1].fetches = 1
            /\ final_result = None

\* witness of C35: a crawl with the largest budget has ended after the
\* failure of its start page
C35_Witness ==
    /\ CrawlTerminal
    /\ max_pages = MaxPagesBound
    /\ Len(c_log) = 1
    /\ ~c_log[1].ok
    /\ visited_urls = {start_url}

\* the pages of the log whose extraction failed
FailedPages == SelectSeq(c_log, LAMBDA p : ~p.ok)

\* C36: a URL whose extraction failed counts against the page budget and
\* is not retried or queued again: it stays in visited_urls, no URL is
\* visited twice, and with max_pages = M and f failed pages at most M - f
\* pages can contribute links to the aggregate.
C36_FailureCounts ==
    /\ \A k \in DOMAIN c_log :
         /\ c_log[k].url \in visited_urls
         /\ ~c_log[k].ok => ~InSeq(c_log[k].url, urls_to_visit)
         /\ \A j \in DOMAIN c_log : j # k => c_log[j].url # c_log[k].url
    /\ Len(c_log) = Cardinality(visited_urls)
    /\ c_log # <<>> => /\ Len(c_log) <= max_pages
                       /\ Len(OkPages) <= max_pages - Len(FailedPages)

\* witness of C36: with a budget of two pages the second page failed, and
\* the crawl ended with a URL left in the frontier
C36_Witness ==
    /\ CrawlTerminal
    /\ max_pages = 2
    /\ Len(c_log) = 2
    /\ c_log[1].ok /\ ~c_log[2].ok
    /\ urls_to_visit # <<>>

\* C37: every URL that a crawl visits, and every URL in its frontier, has
\* the host of the start URL: the navigation links of a page are those on
\* the host of that page.
C37_SameHost ==
    /\ \A u \in visited_urls : UrlHost(u) = UrlHost(start_url)
    /\ \A k \in DOMAIN urls_to_visit :
         UrlHost(urls_to_visit[k]) = UrlHost(start_url)
    /\ \A k \in DOMAIN c_log :
         /\ UrlHost(c_log[k].url) = UrlHost(start_url)
         /\ \A j \in DOMAIN c_log[k].links :
              UrlHost(c_log[k].links[j]) = UrlHost(c_log[k].url)

\* witness of C37: the start page has a link to another host, which is not
\* among its navigation links, and a link to its own host, which is queued
C37_Witness ==
    /\ Len(c_log) = 1
    /\ c_last.kind = "extracted"
    /\ c_last.nav.kind = "return"
    /\ InSeq(NumUrls, c_last.nav.anchors)
    /\ ~InSeq(NumUrls, urls_to_visit)
    /\ urls_to_visit # <<>>

\* C38: one extract_and_classify call has one correlation id: a contextual
\* error that the call raises carries, in its context, the id generated at
\* the start of the call and the url passed to the call.
C38_SingleCorrelationId ==
    (s_pc = "done" /\ s_out.out.kind = "raise"
     /\ IsContextual(s_out.out.error))
       => /\ s_out.out.error.context.correlation_id = s_in.cid
          /\ s_out.out.error.context.url = s_in.url

\* C39: an extract_content call that raises has issued at least one HTTP
\* request, for every max_retries the constructor can end with (argument or
\* setting, 0 included): the raise after the retry loop is never reached.
C39_RequestBeforeRaise ==
    fpc = "raised" => NumGets >= 1

\* C40: when fetch, parse and classify return and the result is not to be
\* persisted, extract_and_classify returns a result, whatever the elapsed
\* time that the context measures, zero included.
C40_AssemblyCannotFail ==
    (/\ s_pc = "done"
     /\ s_in.env.fetch.kind = "return"
     /\ s_in.env.parse.kind = "return"
     /\ s_in.env.classify.kind = "return"
     /\ ~s_in.save_result)
       => s_out.out.kind = "return"


====
